---- MODULE Spec2Model ----
(***************************************************************************)
(* Model of the encrypted storage engine of SCloud (package storage and    *)
(* the handlers that call it): the stream codec (Encrypt / Decrypt), the   *)
(* directory manifest tree, and the stateless chunk ingest.                *)
(*                                                                         *)
(* Bytes.  A byte of a stream is a record [s, x].  s names where the byte  *)
(* comes from and x is an 8-bit value XORed onto it:                       *)
(*   s = <<"lit">>                 the plain byte x                        *)
(*   s = <<"ks", key, nonce, i, ps>>  byte i of the AES-CTR keystream of   *)
(*                                 (key, nonce), XOR the plaintext byte    *)
(*                                 [s |-> ps, x |-> x]: a GCM ciphertext   *)
(*                                 byte                                    *)
(*   s = <<"tag", <<key, nonce, aad, body>>, j>>  byte j of the GCM tag,   *)
(*                                 XOR x                                   *)
(*   s = <<"hkdf", info, ikm, salt, j>>       byte j of an HKDF output     *)
(*   s = <<"json", m>>             the JSON text of manifest m (the whole  *)
(*                                 document counts as one byte)            *)
(* HKDF-SHA256 and the GCM tag are modelled as injective (no collisions),  *)
(* the CTR keystream as an unknown pad, so that flipping bits of a         *)
(* ciphertext byte flips the same bits of the plaintext (GCM is            *)
(* malleable; only the tag detects it).                                    *)
(***************************************************************************)
EXTENDS Integers, Sequences, FiniteSets, TLC

VARIABLES
  \* the codec on its own: where the run is, the input, what Encrypt
  \* returned, the stream, what was done to it, what Decrypt returned
  cpc, cIn, cEnc, cStream, cTamper, cDec,
  \* the store: the disk and what the last request returned
  fs, ret,
  \* per logical path, the content of the last successful put_whole
  latest,
  \* one chunked upload: its parameters and the indices sent so far, in order
  up, sent,
  \* the put_chunk calls made so far and what each did
  hist,
  \* the requests that run at the same time, each one a goroutine: what it
  \* has left to do, its open file, what it returned
  procs

cvars == <<cpc, cIn, cEnc, cStream, cTamper, cDec>>
svars == <<fs, ret, latest, up, sent, hist>>
vars == <<cpc, cIn, cEnc, cStream, cTamper, cDec, fs, ret, latest, up, sent, hist, procs>>

(***************************************************************************)
(* Program constants (storage.go).                                         *)
(***************************************************************************)
versionByte == 1
saltSize == 16
noncePrefixSize == 8
headerSize == 1 + 16 + 8 + 4
defaultChunk == 2^20
gcmTagSize == 16
indexBits == 32

(***************************************************************************)
(* Bounds of the model.                                                    *)
(***************************************************************************)
\* longest plaintext handed to Encrypt
MaxLen == 3

MasterKeys == {"K1", "K2"}
PlainBytes == {7, 200}
ChunkSizes == {0, 1, 2}
\* what a tampering changes a byte by (XOR)
TamperXor == {1, 128}

RECURSIVE SeqsUpTo(_, _)
SeqsUpTo(S, n) ==
  IF n = 0 THEN {<<>>}
  ELSE LET shorter == SeqsUpTo(S, n - 1)
       IN  shorter \cup {Append(q, e) : q \in {t \in shorter : Len(t) = n - 1}, e \in S}

Plains == {[i \in 1..Len(q) |-> [s |-> <<"lit">>, x |-> q[i]]] : q \in SeqsUpTo(PlainBytes, MaxLen)}
\* rand.Read(salt), rand.Read(noncePrefix): the values the generator may return
Salts == {[i \in 1..saltSize |-> [s |-> <<"lit">>, x |-> v]] : v \in {17}}
NoncePrefixes == {[i \in 1..noncePrefixSize |-> [s |-> <<"lit">>, x |-> v]] : v \in {34}}
\* how a reader may split its first reads (<<>>: every Read fills the buffer)
ReadSchedules == {<<>>, <<1>>}

\* the master key the store runs under (FILEMASTERKEY)
StoreKey == "K1"
\* the slugs randSlugHex hands out
SlugNames == <<"s1", "s2", "s3", "s4", "s5", "s6">>
\* time.Now().Unix()
Times == {1}
\* the logical paths requests name: "x", "d/x" and "d/../x"
LogicalPaths == {<<"x">>, <<"d", "x">>, <<"d", "..", "x">>}
\* what put_whole uploads, and how the request body is read
Uploads ==
  {[content |-> <<>>, reads |-> <<>>],
   [content |-> <<[s |-> <<"lit">>, x |-> 200], [s |-> <<"lit">>, x |-> 7]>>, reads |-> <<1>>]}
\* what put_chunk is called with
ChunkBodies ==
  {<<[s |-> <<"lit">>, x |-> 7]>>,
   <<[s |-> <<"lit">>, x |-> 200], [s |-> <<"lit">>, x |-> 7]>>}
\* one upload: at most MaxChunks chunks of at most UploadChunkSize bytes
MaxChunks == 3
UploadChunkSize == 2
UploadIDs == {<<"f", "1">>, <<" ", "a", "/">>}

\* a history of at most MaxCalls put_chunk calls
MaxCalls == 3
\* what a call of the history may be given (total size 0: not known)
IngestMetas ==
  [logicalPath : {<<"d", "x">>}, fileID : {<<"f", "1">>}, chunkSize : {2, 3},
   index : {0, 1}, totalChunks : {1, 2}, totalSize : {0}]

\* at most MaxSetup put_chunk calls come before the requests that are refused
MaxSetup == 2
\* requests put_chunk has to refuse: GoodRequest with one thing wrong
GoodRequest ==
  [meta |-> [logicalPath |-> <<"d", "x">>, fileID |-> <<"f", "1">>, chunkSize |-> 2,
             index |-> 0, totalChunks |-> 2, totalSize |-> 3],
   body |-> <<[s |-> <<"lit">>, x |-> 7]>>]
BadRequests ==
  {[GoodRequest EXCEPT !.meta.chunkSize = 0],
   [GoodRequest EXCEPT !.meta.chunkSize = -1],
   [GoodRequest EXCEPT !.body = <<>>],
   [GoodRequest EXCEPT !.body = <<[s |-> <<"lit">>, x |-> 1], [s |-> <<"lit">>, x |-> 2],
                                  [s |-> <<"lit">>, x |-> 3]>>],
   [GoodRequest EXCEPT !.meta.totalChunks = 0],
   [GoodRequest EXCEPT !.meta.totalChunks = -1],
   [GoodRequest EXCEPT !.meta.index = 2],
   [GoodRequest EXCEPT !.meta.index = 3],
   [GoodRequest EXCEPT !.meta.logicalPath = <<"">>],
   [GoodRequest EXCEPT !.meta.fileID = <<>>]}

ChunkMetas ==
  [logicalPath : {<<"d", "x">>}, fileID : {<<"f", "1">>},
   chunkSize : {2}, index : {0, 1}, totalChunks : {2},
   totalSize : {3}]

(***************************************************************************)
(* Byte helpers.                                                           *)
(***************************************************************************)
Lit(n) == [s |-> <<"lit">>, x |-> n]

RECURSIVE XorBits(_, _, _)
XorBits(a, b, n) ==
  IF n = 0 THEN 0
  ELSE (((a % 2) + (b % 2)) % 2) + (2 * XorBits(a \div 2, b \div 2, n - 1))

XorByte(c, d) == [c EXCEPT !.x = XorBits(@, d, 8)]

Min(a, b) == IF a < b THEN a ELSE b

\* binary.BigEndian.PutUint32(buf, uint32(n)), for 0 <= n < 2^31 (the model
\* checker's integers are 32-bit signed, so uint32(n) = n for every n it holds).
PutUint32(n) ==
  << Lit((n \div 16777216) % 256), Lit((n \div 65536) % 256),
     Lit((n \div 256) % 256), Lit(n % 256) >>

\* binary.BigEndian.Uint32(buf): the four bytes read as a number.  A value of
\* 2^31 or more is returned as 2^31 - 1: it is only ever compared with, and is
\* larger than, the number of bytes a stream of the model holds.  A byte that
\* is not a literal (a pad or tag byte read where a length was expected) has an
\* unknown value; its XOR offset stands for it.
Uint32(b) ==
  IF b[1].x >= 128 THEN 2147483647
  ELSE (b[1].x * 16777216) + (b[2].x * 65536) + (b[3].x * 256) + b[4].x

\* index == ^uintW(0) for a W-bit counter, W = w: index = 2^w - 1, computed
\* on the two halves of the counter.
IsMaxIndex(index, w) ==
  LET lo == w \div 2
      hi == w - lo
  IN  /\ index % (2^lo) = (2^lo) - 1
      /\ index \div (2^lo) = (2^hi) - 1

Take(seq, n) == SubSeq(seq, 1, Min(n, Len(seq)))
Drop(seq, n) == SubSeq(seq, Min(n, Len(seq)) + 1, Len(seq))

(***************************************************************************)
(* Cipher primitives.                                                      *)
(***************************************************************************)
\* hkdf.New(sha256.New, key, salt, info) read for n bytes
hkdfBytes(n, key, salt, info) ==
  [j \in 1..n |-> [s |-> <<"hkdf", info, key, salt, j>>, x |-> 0]]

\* v is computed once, then used under the name F gives it: x := v; F(x)
Bind(v, F(_)) == F(v)

\* A byte string named inside another byte's source is kept run-length
\* packed: its length and the first byte of every run.  A byte continues a
\* run when it repeats the byte before it or, among HKDF output bytes, is
\* the next byte of the same output.  Equal packings mean equal strings.
Follows(p, c) ==
  /\ c.x = p.x
  /\ IF p.s[1] = "hkdf"
     THEN c.s[1] = "hkdf" /\ SubSeq(c.s, 1, 4) = SubSeq(p.s, 1, 4) /\ c.s[5] = p.s[5] + 1
     ELSE c.s = p.s
Pack(b) ==
  [n |-> Len(b),
   runs |-> [k \in {i \in 1..Len(b) : i = 1 \/ ~Follows(b[i - 1], b[i])} |-> b[k]]]

\* Mutant of deriveFileKey: the master key is left out of the derivation.
deriveFileKeySaltOnly(masterKey, salt) == <<"hkdf", "file-key:v1", "", Pack(salt)>>

\* the 32-byte file key, kept as the HKDF inputs that determine it
deriveFileKey(masterKey, salt) == <<"hkdf", "file-key:v1", masterKey, Pack(salt)>>

\* the GCM tag over (key, nonce, aad, ciphertext body)
GcmTag(key, nonce, aad, body) ==
  Bind(<<key, Pack(nonce), Pack(aad), body>>, LAMBDA d :
    [j \in 1..gcmTagSize |-> [s |-> <<"tag", d, j>>, x |-> 0]])

\* aead.Seal(nil, nonce, plain, aad): CTR ciphertext, then the 16-byte tag
Seal(key, nonce, plain, aad) ==
  Bind(Pack(nonce), LAMBDA pn :
    Bind([i \in 1..Len(plain) |->
            [s |-> <<"ks", key, pn, i, plain[i].s>>, x |-> plain[i].x]], LAMBDA body :
      body \o GcmTag(key, nonce, aad, body)))

\* aead.Open(nil, nonce, ct, aad): the tag is verified over (nonce, aad, body)
\* before anything is decrypted.
Open(key, nonce, ct, aad) ==
  IF Len(ct) < gcmTagSize THEN [ok |-> FALSE, plain |-> <<>>]
  ELSE Bind(SubSeq(ct, 1, Len(ct) - gcmTagSize), LAMBDA body :
    IF SubSeq(ct, Len(ct) - gcmTagSize + 1, Len(ct)) = GcmTag(key, nonce, aad, body)
    THEN [ok |-> TRUE,
          plain |-> [i \in 1..Len(body) |-> [s |-> body[i].s[5], x |-> body[i].x]]]
    ELSE [ok |-> FALSE, plain |-> <<>>])

(***************************************************************************)
(* Stream codec (storage.go).                                              *)
(***************************************************************************)
\* error values: nil, io.EOF, io.ErrUnexpectedEOF, "unsupported version",
\* "auth failed on chunk <index>", "too many chunks: index overflow"
NoErr == [kind |-> "nil", index |-> 0]
Err(k) == [kind |-> k, index |-> 0]
AuthFailed(i) == [kind |-> "AuthFailed", index |-> i]
\* fmt.Errorf("dir %q not found", seg): the error names the segment
DirNotFound(seg) == [kind |-> "DirNotFound", index |-> 0, seg |-> seg]

generateHeader(chunkSize, salt, noncePrefix) ==
  <<Lit(versionByte)>> \o salt \o noncePrefix \o PutUint32(chunkSize)

\* Mutant of ReadFull: a short read is reported as a plain end of stream.
ReadFullLax(r, n) ==
  IF Len(r) >= n THEN [err |-> NoErr, data |-> SubSeq(r, 1, n), rest |-> Drop(r, n)]
  ELSE [err |-> Err("EOF"), data |-> r, rest |-> <<>>]

\* io.ReadFull(r, buf) with len(buf) = n: nil when n bytes were read (also for
\* n = 0), io.EOF when none was there to read, io.ErrUnexpectedEOF when the
\* stream ended after some but not all of them.
ReadFull(r, n) ==
  IF Len(r) >= n THEN [err |-> NoErr, data |-> SubSeq(r, 1, n), rest |-> Drop(r, n)]
  ELSE IF Len(r) = 0 THEN [err |-> Err("EOF"), data |-> <<>>, rest |-> <<>>]
  ELSE [err |-> Err("ErrUnexpectedEOF"), data |-> r, rest |-> <<>>]

\* readHeader: io.ReadFull of headerSize bytes, then the version check.
readHeader(r) ==
  Bind(ReadFull(r, headerSize), LAMBDA h :
    IF h.err # NoErr THEN [err |-> h.err]
    ELSE IF h.data[1] # Lit(versionByte) THEN [err |-> Err("UnsupportedVersion")]
    ELSE [err |-> NoErr,
          hdr |-> h.data,
          salt |-> SubSeq(h.data, 2, 17),
          noncePrefix |-> SubSeq(h.data, 18, 25),
          chunkSize |-> Uint32(SubSeq(h.data, 26, 29)),
          rest |-> h.rest])

\* Mutant of indexBytes: the index is never written into nonce and AAD.
indexBytesZero(index) == PutUint32(0)

\* binary.BigEndian.PutUint32(nonce[8:], index) and
\* binary.BigEndian.PutUint32(aad[len(hdr):], index): the index as written
\* into the nonce and the AAD of a record.
indexBytes(index) == PutUint32(index)

\* nonce = 8-byte prefix || 4-byte index
recordNonce(noncePrefix, index) == noncePrefix \o indexBytes(index)

\* Mutant of recordAAD: the AAD holds the header's size, not its bytes.
recordAADNoHeader(hdr, index) == PutUint32(headerSize) \o indexBytes(index)

\* AAD = the exact header bytes || 4-byte index
recordAAD(hdr, index) == hdr \o indexBytes(index)

\* Mutant of sealRecord: the length prefix counts the plaintext, not the
\* ciphertext with its tag.
sealRecordPlainLen(key, hdr, noncePrefix, index, plain) ==
  Bind(Seal(key, recordNonce(noncePrefix, index), plain, recordAAD(hdr, index)),
       LAMBDA ct : PutUint32(Len(plain)) \o ct)

\* One record: [len][ct].
sealRecord(key, hdr, noncePrefix, index, plain) ==
  Bind(Seal(key, recordNonce(noncePrefix, index), plain, recordAAD(hdr, index)),
       LAMBDA ct : PutUint32(Len(ct)) \o ct)

\* The read loop of Encrypt.  rest is what the reader still holds; reads are
\* the sizes the reader chooses to return for its first Read calls (a Read may
\* return fewer bytes than the buffer holds); once reads is used up every Read
\* fills the buffer.  w is the width in bits of the index counter.
RECURSIVE EncryptLoop(_, _, _, _, _, _, _, _)
EncryptLoop(key, hdr, noncePrefix, chunkSize, rest, reads, index, w) ==
  IF Len(rest) = 0 THEN [err |-> NoErr, out |-> <<>>, index |-> index]
  ELSE Bind(Min(IF Len(reads) > 0 THEN Min(Head(reads), chunkSize) ELSE chunkSize,
                Len(rest)), LAMBDA n :
    Bind(sealRecord(key, hdr, noncePrefix, index, Take(rest, n)), LAMBDA rec :
      IF IsMaxIndex(index, w)
      THEN [err |-> Err("IndexOverflow"), out |-> rec, index |-> index]
      ELSE Bind(EncryptLoop(key, hdr, noncePrefix, chunkSize, Drop(rest, n),
                            IF Len(reads) > 0 THEN Tail(reads) ELSE reads,
                            index + 1, w), LAMBDA more :
        [err |-> more.err, out |-> rec \o more.out, index |-> more.index])))

EncryptWith(masterKey, plain, chunkSize0, salt, noncePrefix, reads, w) ==
  Bind(IF chunkSize0 <= 0 THEN defaultChunk ELSE chunkSize0, LAMBDA chunkSize :
    Bind(generateHeader(chunkSize, salt, noncePrefix), LAMBDA hdr :
      Bind(deriveFileKey(masterKey, salt), LAMBDA key :
        Bind(EncryptLoop(key, hdr, noncePrefix, chunkSize, plain, reads, 0, w),
             LAMBDA body :
          [err |-> body.err, out |-> hdr \o body.out, index |-> body.index]))))

\* Encrypt(masterKey, r, w, chunkSize) with the random salt and nonce prefix
\* it drew and the reader's behaviour made explicit.
Encrypt(masterKey, plain, chunkSize, salt, noncePrefix, reads) ==
  EncryptWith(masterKey, plain, chunkSize, salt, noncePrefix, reads, indexBits)

\* The record loop of Decrypt on what is left of the stream.
RECURSIVE DecryptLoop(_, _, _, _, _)
DecryptLoop(key, hdr, noncePrefix, r, index) ==
  Bind(ReadFull(r, 4), LAMBDA lp :
    IF lp.err = Err("EOF") THEN [err |-> NoErr, out |-> <<>>, index |-> index]
    ELSE IF lp.err # NoErr THEN [err |-> lp.err, out |-> <<>>, index |-> index]
    ELSE Bind(ReadFull(lp.rest, Uint32(lp.data)), LAMBDA ct :
      IF ct.err # NoErr THEN [err |-> ct.err, out |-> <<>>, index |-> index]
      ELSE Bind(Open(key, recordNonce(noncePrefix, index), ct.data,
                     recordAAD(hdr, index)), LAMBDA o :
        IF ~o.ok THEN [err |-> AuthFailed(index), out |-> <<>>, index |-> index]
        ELSE IF IsMaxIndex(index, indexBits)
        THEN [err |-> Err("IndexOverflow"), out |-> o.plain, index |-> index]
        ELSE Bind(DecryptLoop(key, hdr, noncePrefix, ct.rest, index + 1), LAMBDA more :
          [err |-> more.err, out |-> o.plain \o more.out, index |-> more.index]))))

\* Decrypt(masterKey, r, w): err is what it returns, out what it wrote to w,
\* index the number of records it accepted.
Decrypt(masterKey, r) ==
  Bind(readHeader(r), LAMBDA h :
    IF h.err # NoErr THEN [err |-> h.err, out |-> <<>>, index |-> 0]
    ELSE Bind(deriveFileKey(masterKey, h.salt), LAMBDA key :
      DecryptLoop(key, h.hdr, h.noncePrefix, h.rest, 0)))

(***************************************************************************)
(* The disk.  A path is a sequence of names below the working directory    *)
(* (the empty path), a name a sequence of pieces (<<slug>>,                *)
(* <<slug, ".bin">>, <<".manifest">>, the characters of a staging          *)
(* directory's name).  A file system is a function from the paths that     *)
(* exist to what is there.                                                 *)
(***************************************************************************)
DirNode == [kind |-> "dir", data |-> <<>>]
FileNode(d) == [kind |-> "file", data |-> d]
EmptyDisk == <<>>

Exists(f, p) == p = <<>> \/ p \in DOMAIN f
IsDir(f, p) == p = <<>> \/ (p \in DOMAIN f /\ f[p].kind = "dir")
IsFile(f, p) == p \in DOMAIN f /\ f[p].kind = "file"

Parent(p) == SubSeq(p, 1, Len(p) - 1)
Prefixes(p) == {SubSeq(p, 1, k) : k \in 1..Len(p)}
IsUnder(p, q) == Len(q) >= Len(p) /\ SubSeq(q, 1, Len(p)) = p

\* filepath.Join(dir, name) for a single element name: Join cleans its
\* result, so "." names dir itself and ".." its parent.
Join(dir, name) ==
  IF name = <<".">> THEN dir
  ELSE IF name = <<".", ".">> THEN Parent(dir)
  ELSE Append(dir, name)

\* filepath.Dir(p)
Dir(p) == Parent(p)

\* os.MkdirAll(p)
MkdirAll(f, p) ==
  IF \E q \in Prefixes(p) : IsFile(f, q) THEN [err |-> Err("ENOTDIR"), fs |-> f]
  ELSE [err |-> NoErr, fs |-> f @@ [q \in Prefixes(p) \ DOMAIN f |-> DirNode]]

\* os.OpenFile(p, O_CREATE|O_WRONLY|O_TRUNC) (add O_EXCL with excl), the
\* writes of data, and Close; os.WriteFile is the same without O_EXCL.
WriteFile(f, p, data, excl) ==
  IF p = <<>> \/ ~IsDir(f, Parent(p)) THEN [err |-> Err("ENOENT"), fs |-> f]
  ELSE IF excl /\ Exists(f, p) THEN [err |-> Err("EEXIST"), fs |-> f]
  ELSE IF IsDir(f, p) THEN [err |-> Err("EISDIR"), fs |-> f]
  ELSE [err |-> NoErr, fs |-> (p :> FileNode(data)) @@ f]

\* os.ReadFile(p), and os.Open(p) followed by reading to the end
ReadFile(f, p) ==
  IF ~Exists(f, p) THEN [err |-> Err("ENOENT"), data |-> <<>>]
  ELSE IF IsDir(f, p) THEN [err |-> Err("EISDIR"), data |-> <<>>]
  ELSE [err |-> NoErr, data |-> f[p].data]

\* os.Rename(from, to) of a file
Rename(f, from, to) ==
  IF ~IsFile(f, from) THEN [err |-> Err("ENOENT"), fs |-> f]
  ELSE IF IsDir(f, to) THEN [err |-> Err("EISDIR"), fs |-> f]
  ELSE [err |-> NoErr,
        fs |-> (to :> f[from]) @@ [q \in DOMAIN f \ {from} |-> f[q]]]

\* os.RemoveAll(p): p and everything below it
RemoveAll(f, p) == EmptyDisk @@ [q \in {r \in DOMAIN f : ~IsUnder(p, r)} |-> f[q]]

(***************************************************************************)
(* Logical paths.  A logical path is the list strings.Split(path, "/")     *)
(* gives: "a/b" is <<"a", "b">>, "/a" is <<"", "a">>, "" is <<"">>.        *)
(***************************************************************************)
IsRooted(p) == Len(p) >= 2 /\ p[1] = ""

\* The element stack of filepath.Clean: "" and "." are dropped, ".." removes
\* the element before it; at the start of a rooted path ".." is dropped, at
\* the start of a relative one it is kept.
RECURSIVE CleanElems(_, _, _)
CleanElems(p, out, rooted) ==
  IF p = <<>> THEN out
  ELSE LET e == Head(p)
           next == IF e = "" \/ e = "." THEN out
                   ELSE IF e = ".."
                   THEN IF Len(out) > 0 /\ out[Len(out)] # ".."
                        THEN SubSeq(out, 1, Len(out) - 1)
                        ELSE IF rooted THEN out ELSE Append(out, "..")
                   ELSE Append(out, e)
       IN  CleanElems(Tail(p), next, rooted)

\* strings.Split(filepath.Clean(path), "/")
Clean(p) ==
  LET out == CleanElems(p, <<>>, IsRooted(p))
  IN  IF IsRooted(p) THEN (IF out = <<>> THEN <<"", "">> ELSE <<"">> \o out)
      ELSE IF out = <<>> THEN <<".">> ELSE out

\* The parts resolveParentDir walks: Clean, Split, and the leading empty
\* part of a rooted path dropped.
PathParts(logicalPath) ==
  LET parts == Clean(logicalPath)
  IN  IF parts[1] = "" THEN Tail(parts) ELSE parts

(***************************************************************************)
(* The manifest tree (manifest.go).  Every operation takes the disk f it   *)
(* starts from and gives the disk it leaves.  rnd holds what the           *)
(* operation draws from outside: the salt and nonce prefix of every        *)
(* Encrypt it runs and the clock.                                          *)
(***************************************************************************)
manifestFileName == <<".manifest">>
manifestTmpName == <<".manifest", ".tmp">>
manifestPath(dir) == Append(dir, manifestFileName)

BinName(slug) == <<slug, ".bin">>

EmptyManifest == [version |-> 1, entries |-> <<>>]
DirEntry(name, slug, now) ==
  [name |-> name, enc |-> slug, type |-> "dir", size |-> 0,
   created |-> now, modTime |-> now]
FileEntry(name, slug, now) ==
  [name |-> name, enc |-> slug, type |-> "file", size |-> 0,
   created |-> now, modTime |-> now]

\* json.MarshalIndent(m) and json.Unmarshal(data, &m).  The text grows with
\* the entries: its first cell stands for the document, one more cell
\* follows for every entry.
Marshal(m) ==
  <<[s |-> <<"json", m>>, x |-> 0]>> \o
  [k \in 1..Len(m.entries) |-> [s |-> <<"jsonmore">>, x |-> k]]
Unmarshal(data) ==
  IF Len(data) >= 1 /\ data[1].s[1] = "json" /\ data[1].x = 0
     /\ data = Marshal(data[1].s[2])
  THEN [err |-> NoErr, m |-> data[1].s[2]]
  ELSE [err |-> Err("BadJSON"), m |-> EmptyManifest]

encryptBytes(masterKey, data, rnd) ==
  Encrypt(masterKey, data, 64 * 1024, rnd.salt, rnd.noncePrefix, <<>>)
decryptBytes(masterKey, data) == Decrypt(masterKey, data)

\* A manifest that is not there reads as the empty one.
loadManifest(f, masterKey, dir) ==
  IF ~Exists(f, manifestPath(dir)) THEN [err |-> NoErr, m |-> EmptyManifest]
  ELSE Bind(ReadFile(f, manifestPath(dir)), LAMBDA file :
    IF file.err # NoErr THEN [err |-> file.err, m |-> EmptyManifest]
    ELSE Bind(decryptBytes(masterKey, file.data), LAMBDA d :
      IF d.err # NoErr THEN [err |-> d.err, m |-> EmptyManifest]
      ELSE Unmarshal(d.out)))

\* randSlugHex(16): 128 random bits in hex.  A draw repeats neither a name
\* that is already on the disk nor a slug that a manifest of the store
\* records, and the program uses a slug only as a name, so the draws are
\* taken from SlugNames in order.
UsedSlugs(f) ==
  {p[Len(p)][1] : p \in DOMAIN f} \cup
  UNION {Bind(loadManifest(f, StoreKey, Parent(p)).m.entries, LAMBDA es :
           {es[i].enc : i \in 1..Len(es)}) :
         p \in {q \in DOMAIN f : q[Len(q)] = manifestFileName /\ IsFile(f, q)}}
randSlugHex(f) ==
  Bind({k \in 1..Len(SlugNames) : SlugNames[k] \notin UsedSlugs(f)}, LAMBDA free :
    IF free = {} THEN SlugNames[Len(SlugNames)]
    ELSE SlugNames[CHOOSE k \in free : \A j \in free : k <= j])

\* Written to .manifest.tmp, then renamed over .manifest.
saveManifest(f, masterKey, dir, m, rnd) ==
  Bind(encryptBytes(masterKey, Marshal(m), rnd), LAMBDA c :
    IF c.err # NoErr THEN [err |-> c.err, fs |-> f]
    ELSE Bind(WriteFile(f, Append(dir, manifestTmpName), c.out, FALSE), LAMBDA w :
      IF w.err # NoErr THEN w
      ELSE Rename(w.fs, Append(dir, manifestTmpName), manifestPath(dir))))

rootDir == <<<<"filestorage">>>>

\* The root is created when missing and its manifest loaded and saved again,
\* on every call.
ensureRoot(f, masterKey, rnd) ==
  Bind(MkdirAll(f, rootDir), LAMBDA d :
    IF d.err # NoErr THEN [err |-> d.err, fs |-> f]
    ELSE Bind(loadManifest(d.fs, masterKey, rootDir), LAMBDA l :
      IF l.err # NoErr THEN [err |-> l.err, fs |-> d.fs]
      ELSE saveManifest(d.fs, masterKey, rootDir, l.m, rnd)))

\* Mutant of findEntry: no entry is ever found.
findEntryNone(m, name, typ) == 0

\* index of the first entry with this name and type, 0 when there is none
findEntry(m, name, typ) ==
  Bind({i \in 1..Len(m.entries) :
          m.entries[i].name = name /\ m.entries[i].type = typ}, LAMBDA hits :
    IF hits = {} THEN 0 ELSE CHOOSE i \in hits : \A j \in hits : i <= j)

\* A directory that resolveParentDir finds missing in create mode: a slug is
\* drawn, the directory made, the parent's manifest saved with the new
\* entry and an empty manifest saved in the directory.  None of the results
\* is looked at.
makeDir(f, masterKey, curDir, m, seg, slug, rnd) ==
  Bind(MkdirAll(f, Join(curDir, <<slug>>)).fs, LAMBDA f1 :
    Bind(saveManifest(f1, masterKey, curDir,
                      [m EXCEPT !.entries = Append(@, DirEntry(seg, slug, rnd.now))],
                      rnd).fs, LAMBDA f2 :
      saveManifest(f2, masterKey, Join(curDir, <<slug>>), EmptyManifest, rnd).fs))

\* The loop of resolveParentDir over the directory segments.
RECURSIVE walkDirs(_, _, _, _, _, _)
walkDirs(f, masterKey, curDir, dirs, create, rnd) ==
  IF dirs = <<>> THEN [err |-> NoErr, fs |-> f, dir |-> curDir]
  ELSE Bind(loadManifest(f, masterKey, curDir), LAMBDA l :
    IF l.err # NoErr THEN [err |-> l.err, fs |-> f, dir |-> curDir]
    ELSE Bind(findEntry(l.m, Head(dirs), "dir"), LAMBDA e :
      IF e # 0
      THEN walkDirs(f, masterKey, Join(curDir, <<l.m.entries[e].enc>>),
                    Tail(dirs), create, rnd)
      ELSE IF ~create THEN [err |-> DirNotFound(Head(dirs)), fs |-> f, dir |-> curDir]
      ELSE Bind(randSlugHex(f), LAMBDA slug :
        Bind(makeDir(f, masterKey, curDir, l.m, Head(dirs), slug, rnd), LAMBDA f3 :
          walkDirs(f3, masterKey, Join(curDir, <<slug>>), Tail(dirs), create, rnd)))))

resolveParentDir(f, masterKey, logicalPath, create, rnd) ==
  Bind(PathParts(logicalPath), LAMBDA parts :
    Bind(ensureRoot(f, masterKey, rnd), LAMBDA r :
      IF r.err # NoErr THEN [err |-> r.err, fs |-> r.fs, dir |-> <<>>, name |-> ""]
      ELSE Bind(walkDirs(r.fs, masterKey, rootDir, SubSeq(parts, 1, Len(parts) - 1),
                         create, rnd), LAMBDA w :
        [err |-> w.err, fs |-> w.fs, dir |-> w.dir, name |-> parts[Len(parts)]])))

\* Mutant of ResolveForCreate: an entry is made whether or not the name has
\* one.
ResolveForCreateAnew(f, masterKey, logicalPath, rnd) ==
  Bind(resolveParentDir(f, masterKey, logicalPath, TRUE, rnd), LAMBDA p :
    IF p.err # NoErr THEN [err |-> p.err, fs |-> p.fs, path |-> <<>>]
    ELSE Bind(loadManifest(p.fs, masterKey, p.dir), LAMBDA l :
      Bind(randSlugHex(p.fs), LAMBDA slug :
        [err |-> NoErr,
         fs |-> saveManifest(p.fs, masterKey, p.dir,
                  [l.m EXCEPT !.entries = Append(@, FileEntry(p.name, slug, rnd.now))],
                  rnd).fs,
         path |-> Join(p.dir, BinName(slug))])))

\* The physical file of a logical path, its entry made when missing.  An
\* error of loadManifest leaves m nil, and findEntry then dereferences it.
ResolveForCreate(f, masterKey, logicalPath, rnd) ==
  Bind(resolveParentDir(f, masterKey, logicalPath, TRUE, rnd), LAMBDA p :
    IF p.err # NoErr THEN [err |-> p.err, fs |-> p.fs, path |-> <<>>]
    ELSE Bind(loadManifest(p.fs, masterKey, p.dir), LAMBDA l :
      IF l.err # NoErr THEN [err |-> Err("panic"), fs |-> p.fs, path |-> <<>>]
      ELSE Bind(findEntry(l.m, p.name, "file"), LAMBDA e :
        IF e # 0
        THEN [err |-> NoErr, fs |-> p.fs,
              path |-> Join(p.dir, BinName(l.m.entries[e].enc))]
        ELSE Bind(randSlugHex(p.fs), LAMBDA slug :
          [err |-> NoErr,
           fs |-> saveManifest(p.fs, masterKey, p.dir,
                    [l.m EXCEPT !.entries = Append(@, FileEntry(p.name, slug, rnd.now))],
                    rnd).fs,
           path |-> Join(p.dir, BinName(slug))]))))

\* Mutant of ResolveForRead: the walk is made in create mode.
ResolveForReadCreating(f, masterKey, logicalPath, rnd) ==
  Bind(resolveParentDir(f, masterKey, logicalPath, TRUE, rnd), LAMBDA p :
    IF p.err # NoErr THEN [err |-> p.err, fs |-> p.fs, path |-> <<>>]
    ELSE Bind(loadManifest(p.fs, masterKey, p.dir), LAMBDA l :
      Bind(findEntry(l.m, p.name, "file"), LAMBDA e :
        IF e # 0
        THEN [err |-> NoErr, fs |-> p.fs,
              path |-> Join(p.dir, BinName(l.m.entries[e].enc))]
        ELSE [err |-> Err("FileNotFound"), fs |-> p.fs, path |-> <<>>])))

ResolveForRead(f, masterKey, logicalPath, rnd) ==
  Bind(resolveParentDir(f, masterKey, logicalPath, FALSE, rnd), LAMBDA p :
    IF p.err # NoErr THEN [err |-> p.err, fs |-> p.fs, path |-> <<>>]
    ELSE Bind(loadManifest(p.fs, masterKey, p.dir), LAMBDA l :
      IF l.err # NoErr THEN [err |-> Err("panic"), fs |-> p.fs, path |-> <<>>]
      ELSE Bind(findEntry(l.m, p.name, "file"), LAMBDA e :
        IF e # 0
        THEN [err |-> NoErr, fs |-> p.fs,
              path |-> Join(p.dir, BinName(l.m.entries[e].enc))]
        ELSE [err |-> Err("FileNotFound"), fs |-> p.fs, path |-> <<>>])))

\* Mutant of UpdateFileMeta: the creation time is set as well.
UpdateFileMetaCreated(f, masterKey, logicalPath, size, rnd) ==
  Bind(resolveParentDir(f, masterKey, logicalPath, FALSE, rnd), LAMBDA p :
    IF p.err # NoErr THEN [err |-> p.err, fs |-> p.fs]
    ELSE Bind(loadManifest(p.fs, masterKey, p.dir), LAMBDA l :
      Bind(findEntry(l.m, p.name, "file"), LAMBDA e :
        IF e = 0 THEN [err |-> Err("FileMissing"), fs |-> p.fs]
        ELSE saveManifest(p.fs, masterKey, p.dir,
               [l.m EXCEPT !.entries[e].size = size, !.entries[e].modTime = rnd.now,
                           !.entries[e].created = rnd.now],
               rnd))))

\* Mutant of UpdateFileMeta: the size is not recorded.
UpdateFileMetaNoSize(f, masterKey, logicalPath, size, rnd) ==
  [err |-> NoErr, fs |-> resolveParentDir(f, masterKey, logicalPath, FALSE, rnd).fs]

UpdateFileMeta(f, masterKey, logicalPath, size, rnd) ==
  Bind(resolveParentDir(f, masterKey, logicalPath, FALSE, rnd), LAMBDA p :
    IF p.err # NoErr THEN [err |-> p.err, fs |-> p.fs]
    ELSE Bind(loadManifest(p.fs, masterKey, p.dir), LAMBDA l :
      IF l.err # NoErr THEN [err |-> Err("panic"), fs |-> p.fs]
      ELSE Bind(findEntry(l.m, p.name, "file"), LAMBDA e :
        IF e = 0 THEN [err |-> Err("FileMissing"), fs |-> p.fs]
        ELSE saveManifest(p.fs, masterKey, p.dir,
               [l.m EXCEPT !.entries[e].size = size, !.entries[e].modTime = rnd.now],
               rnd))))

(***************************************************************************)
(* Stateless chunk ingest (stateless_chunk.go).  A file id is the sequence *)
(* of its characters.                                                      *)
(***************************************************************************)
RECURSIVE TrimLeft(_)
TrimLeft(id) == IF id # <<>> /\ Head(id) = " " THEN TrimLeft(Tail(id)) ELSE id

RECURSIVE TrimRight(_)
TrimRight(id) ==
  IF id # <<>> /\ id[Len(id)] = " " THEN TrimRight(SubSeq(id, 1, Len(id) - 1)) ELSE id

\* strings.TrimSpace, "missing" for the empty id, "/" replaced by "_"
safeID(id) ==
  LET t == TrimRight(TrimLeft(id))
  IN  IF t = <<>> THEN <<"missing">>
      ELSE [i \in 1..Len(t) |-> IF t[i] = "/" THEN "_" ELSE t[i]]

stagingDirFor(root, fileID) == Join(Append(root, <<"_uploads">>), safeID(fileID))

\* fmt.Sprintf("%08d.part", idx)
Digits == <<"0", "1", "2", "3", "4", "5", "6", "7", "8", "9">>
PartName(idx) ==
  [k \in 1..8 |-> Digits[((idx \div (10 ^ (8 - k))) % 10) + 1]] \o <<".part">>

\* Salt and nonce prefix come from HKDF over (masterKey, fileID), nothing
\* else: the same file id always gives the same header for a chunk size.
deriveHeaderFor(masterKey, fileID, chunkSize) ==
  Bind(hkdfBytes(saltSize, masterKey, fileID, "upload-salt:v1"), LAMBDA salt :
    Bind(hkdfBytes(noncePrefixSize, masterKey, fileID, "upload-nonceprefix:v1"),
         LAMBDA nonce :
      [hdr |-> generateHeader(chunkSize, salt, nonce), salt |-> salt,
       noncePrefix |-> nonce]))

\* One record [len][ct] sealed with nonce prefix || index and AAD
\* header || index.
encryptRecord(masterKey, sh, index, plain) ==
  Bind(deriveFileKey(masterKey, sh.salt), LAMBDA key :
    Bind(Seal(key, sh.noncePrefix \o PutUint32(index), plain,
              sh.hdr \o PutUint32(index)), LAMBDA ct :
      PutUint32(Len(ct)) \o ct))

\* Mutant of writePart: a part that is already there is written over.
writePartOverwrite(f, staging, idx, record) ==
  Bind(MkdirAll(f, staging), LAMBDA d :
    IF d.err # NoErr THEN [err |-> d.err, fs |-> f, wrote |-> FALSE]
    ELSE Bind(WriteFile(d.fs, Join(staging, PartName(idx)), record, FALSE), LAMBDA w :
      [err |-> w.err, fs |-> w.fs, wrote |-> w.err = NoErr]))

\* The part is created with O_EXCL; a part that is already there is left as
\* it is and reported as success.
writePart(f, staging, idx, record) ==
  Bind(MkdirAll(f, staging), LAMBDA d :
    IF d.err # NoErr THEN [err |-> d.err, fs |-> f, wrote |-> FALSE]
    ELSE Bind(WriteFile(d.fs, Join(staging, PartName(idx)), record, TRUE), LAMBDA w :
      IF w.err = Err("EEXIST") THEN [err |-> NoErr, fs |-> d.fs, wrote |-> FALSE]
      ELSE [err |-> w.err, fs |-> w.fs, wrote |-> w.err = NoErr]))

\* Mutant of haveAllParts: the upload counts as complete once its last part
\* is there.
haveAllPartsLastOnly(f, staging, total) ==
  Exists(f, Join(staging, PartName(total - 1)))

haveAllParts(f, staging, total) ==
  \A i \in 0..(total - 1) : Exists(f, Join(staging, PartName(i)))

\* Mutant of partOrder: the parts are appended last index first.
partOrderDescending(totalChunks) == [k \in 1..totalChunks |-> totalChunks - k]

\* for i := 0; i < totalChunks; i++
partOrder(totalChunks) == [k \in 1..totalChunks |-> k - 1]

\* The append loop of assemble: what has been written to the final file when
\* the loop ends, and the error that ended it.
RECURSIVE appendParts(_, _, _, _)
appendParts(f, staging, order, written) ==
  IF order = <<>> THEN [err |-> NoErr, data |-> written]
  ELSE Bind(ReadFile(f, Join(staging, PartName(Head(order)))), LAMBDA b :
    IF b.err # NoErr THEN [err |-> b.err, data |-> written]
    ELSE appendParts(f, staging, Tail(order), written \o b.data))

\* Mutant of assemble: the final file is opened without O_EXCL, so a file
\* that is there is emptied and written again.
assembleOverwriting(f, masterKey, logicalPath, staging, sh, totalChunks, totalSize, rnd) ==
  Bind(ensureRoot(f, masterKey, rnd), LAMBDA r :
    IF r.err # NoErr THEN [err |-> r.err, fs |-> r.fs]
    ELSE Bind(ResolveForCreate(r.fs, masterKey, logicalPath, rnd), LAMBDA c :
      IF c.err # NoErr THEN [err |-> c.err, fs |-> c.fs]
      ELSE Bind(WriteFile(c.fs, c.path, <<>>, FALSE), LAMBDA o :
        IF o.err # NoErr THEN [err |-> o.err, fs |-> c.fs]
        ELSE Bind(appendParts(o.fs, staging, partOrder(totalChunks), sh.hdr), LAMBDA a :
          Bind(WriteFile(o.fs, c.path, a.data, FALSE).fs, LAMBDA w :
            IF a.err # NoErr THEN [err |-> a.err, fs |-> w]
            ELSE Bind(IF totalSize > 0
                      THEN UpdateFileMeta(w, masterKey, logicalPath, totalSize, rnd).fs
                      ELSE w, LAMBDA u :
              [err |-> NoErr, fs |-> RemoveAll(u, staging)]))))))

\* The final file is created with O_EXCL, the header and the parts are
\* written to it, the manifest size is set when totalSize > 0 and the
\* staging directory is removed.  When a part cannot be read the file is
\* left with what was written up to then.
assemble(f, masterKey, logicalPath, staging, sh, totalChunks, totalSize, rnd) ==
  Bind(ensureRoot(f, masterKey, rnd), LAMBDA r :
    IF r.err # NoErr THEN [err |-> r.err, fs |-> r.fs]
    ELSE Bind(ResolveForCreate(r.fs, masterKey, logicalPath, rnd), LAMBDA c :
      IF c.err # NoErr THEN [err |-> c.err, fs |-> c.fs]
      ELSE Bind(WriteFile(c.fs, c.path, <<>>, TRUE), LAMBDA o :
        IF o.err # NoErr THEN [err |-> o.err, fs |-> c.fs]
        ELSE Bind(appendParts(o.fs, staging, partOrder(totalChunks), sh.hdr), LAMBDA a :
          Bind(WriteFile(o.fs, c.path, a.data, FALSE).fs, LAMBDA w :
            IF a.err # NoErr THEN [err |-> a.err, fs |-> w]
            ELSE Bind(IF totalSize > 0
                      THEN UpdateFileMeta(w, masterKey, logicalPath, totalSize, rnd).fs
                      ELSE w, LAMBDA u :
              [err |-> NoErr, fs |-> RemoveAll(u, staging)]))))))

\* assemble as far as the write of the header: the manifest entry is made,
\* the final file created with O_EXCL and the header written to it.
assembleUntilHeader(f, masterKey, logicalPath, sh, rnd) ==
  Bind(ensureRoot(f, masterKey, rnd), LAMBDA r :
    IF r.err # NoErr THEN [err |-> r.err, fs |-> r.fs]
    ELSE Bind(ResolveForCreate(r.fs, masterKey, logicalPath, rnd), LAMBDA c :
      IF c.err # NoErr THEN [err |-> c.err, fs |-> c.fs]
      ELSE Bind(WriteFile(c.fs, c.path, <<>>, TRUE), LAMBDA o :
        IF o.err # NoErr THEN [err |-> o.err, fs |-> c.fs]
        ELSE WriteFile(o.fs, c.path, sh.hdr, FALSE))))

\* Mutant of IngestChunkStateless: the root is ensured before the request is
\* looked at.
IngestChunkStatelessRootFirst(f, masterKey, meta, plain, rnd) ==
  Bind(ensureRoot(f, masterKey, rnd), LAMBDA r :
    [assembled |-> FALSE, path |-> <<>>, err |-> Err("BadRequest"), fs |-> r.fs,
     wrote |-> FALSE])

\* What IngestChunkStateless returns (assembled, path, err), the disk it
\* leaves, and whether it wrote a part.
IngestResult(assembled, path, err, f, wrote) ==
  [assembled |-> assembled, path |-> path, err |-> err, fs |-> f, wrote |-> wrote]

\* meta: [logicalPath, fileID, chunkSize, index, totalChunks, totalSize]
IngestChunkStateless(f, masterKey, meta, plain, rnd) ==
  IF meta.chunkSize <= 0 THEN IngestResult(FALSE, <<>>, Err("BadChunkSize"), f, FALSE)
  ELSE IF Len(plain) = 0 \/ Len(plain) > meta.chunkSize
  THEN IngestResult(FALSE, <<>>, Err("BadChunkLen"), f, FALSE)
  ELSE IF meta.totalChunks <= 0
  THEN IngestResult(FALSE, <<>>, Err("BadTotalChunks"), f, FALSE)
  ELSE IF meta.index >= meta.totalChunks
  THEN IngestResult(FALSE, <<>>, Err("IndexOutOfRange"), f, FALSE)
  ELSE IF meta.logicalPath = <<"">> \/ meta.fileID = <<>>
  THEN IngestResult(FALSE, <<>>, Err("MissingPathOrFileID"), f, FALSE)
  ELSE Bind(ensureRoot(f, masterKey, rnd), LAMBDA r :
    IF r.err # NoErr THEN IngestResult(FALSE, <<>>, r.err, r.fs, FALSE)
    ELSE Bind(deriveHeaderFor(masterKey, meta.fileID, meta.chunkSize), LAMBDA sh :
      Bind(stagingDirFor(rootDir, meta.fileID), LAMBDA staging :
        Bind(writePart(r.fs, staging, meta.index,
                       encryptRecord(masterKey, sh, meta.index, plain)), LAMBDA w :
          IF w.err # NoErr THEN IngestResult(FALSE, <<>>, w.err, w.fs, FALSE)
          ELSE IF ~haveAllParts(w.fs, staging, meta.totalChunks)
          THEN IngestResult(FALSE, <<>>, NoErr, w.fs, w.wrote)
          ELSE Bind(assemble(w.fs, masterKey, meta.logicalPath, staging, sh,
                             meta.totalChunks, meta.totalSize, rnd), LAMBDA a :
            IF a.err # NoErr THEN IngestResult(FALSE, <<>>, a.err, a.fs, w.wrote)
            ELSE IngestResult(TRUE, meta.logicalPath, NoErr, a.fs, w.wrote))))))

(***************************************************************************)
(* The handlers (handlers.go).                                             *)
(***************************************************************************)
\* UploadHandler: the request's file is encrypted into the physical file of
\* Clean(path) and its size recorded.  The error of ResolveForCreate is not
\* looked at (the empty path it returns cannot be opened), nor is the one of
\* UpdateFileMeta.  The file is opened (and so emptied) before Encrypt runs
\* and keeps what Encrypt wrote when Encrypt fails.
UploadHandler(f, masterKey, logicalPath, content, rnd, reads) ==
  IF logicalPath = <<"">> THEN [status |-> 400, fs |-> f]
  ELSE Bind(ResolveForCreate(f, masterKey, Clean(logicalPath), rnd), LAMBDA c :
    Bind(MkdirAll(c.fs, Dir(c.path)), LAMBDA d :
      IF d.err # NoErr THEN [status |-> 500, fs |-> c.fs]
      ELSE Bind(Encrypt(masterKey, content, 0, rnd.salt, rnd.noncePrefix, reads), LAMBDA e :
        Bind(WriteFile(d.fs, c.path, e.out, FALSE), LAMBDA o :
          IF o.err # NoErr THEN [status |-> 500, fs |-> d.fs]
          ELSE IF e.err # NoErr THEN [status |-> 500, fs |-> o.fs]
          ELSE [status |-> 200,
                fs |-> UpdateFileMeta(o.fs, masterKey, Clean(logicalPath),
                                      Len(content), rnd).fs]))))

\* What DownloadHandler answers: the status, the error Decrypt ended with,
\* the body the client receives, and the disk it leaves.
Response(status, err, body, f) ==
  [status |-> status, err |-> err, body |-> body, fs |-> f]

\* DownloadHandler: when Decrypt fails before any plaintext was sent, the raw
\* file is sent instead.
DownloadHandler(f, masterKey, requestedPath, rnd) ==
  IF requestedPath = <<"">> THEN Response(400, NoErr, <<>>, f)
  ELSE Bind(ResolveForRead(f, masterKey, Clean(requestedPath), rnd), LAMBDA r :
    IF r.err # NoErr \/ ~Exists(r.fs, r.path) THEN Response(404, NoErr, <<>>, r.fs)
    ELSE Bind(ReadFile(r.fs, r.path), LAMBDA file :
      Bind(Decrypt(masterKey, file.data), LAMBDA d :
        IF d.err # NoErr /\ d.out = <<>>
        THEN Response(200, d.err, file.data, r.fs)
        ELSE Response(200, d.err, d.out, r.fs))))

(***************************************************************************)
(* The store: whole-file upload, chunk ingest and download, one request at *)
(* a time, on a disk that starts empty.                                    *)
(***************************************************************************)
NoMeta ==
  [logicalPath |-> <<>>, fileID |-> <<>>, chunkSize |-> 0, index |-> 0,
   totalChunks |-> 0, totalSize |-> 0]
NoRet ==
  [op |-> "none", meta |-> NoMeta, data |-> <<>>, status |-> 0, err |-> NoErr,
   assembled |-> FALSE, final |-> <<>>, body |-> <<>>, replaced |-> FALSE]
NoWrite == [set |-> FALSE, data |-> <<>>]
NoUpload ==
  [fileID |-> <<>>, chunkSize |-> 0, totalChunks |-> 0, bodies |-> <<>>,
   logicalPath |-> <<>>, totalSize |-> 0, done |-> FALSE]

CleanPaths == {Clean(p) : p \in LogicalPaths}
Rnds == [salt : Salts, noncePrefix : NoncePrefixes, now : Times]
\* the draws of a call whose draws do not matter
AnyRnd == CHOOSE rnd \in Rnds : TRUE

StoreIdle ==
  /\ fs = EmptyDisk
  /\ ret = NoRet
  /\ latest = [p \in CleanPaths |-> NoWrite]
  /\ up = NoUpload
  /\ sent = <<>>
  /\ hist = <<>>


(***************************************************************************)
(* The codec on its own: a plaintext is encrypted, the stream is left      *)
(* alone or changed once (one byte changed, two records swapped, or the    *)
(* stream cut short), and then decrypted under some master key.            *)
(***************************************************************************)
\* The records of a well-formed stream: where each starts and how long it is.
RECURSIVE Frames(_, _)
Frames(r, off) ==
  IF off + 3 > Len(r) THEN <<>>
  ELSE LET n == 4 + Uint32(SubSeq(r, off, off + 3))
       IN  <<[off |-> off, len |-> n]>> \o Frames(r, off + n)

StreamFrames(r) == Frames(r, headerSize + 1)

NoTamper == [kind |-> "none", a |-> 0, b |-> 0]
NoDec == [key |-> "", err |-> NoErr, out |-> <<>>, index |-> 0]

CodecInit ==
  /\ cpc = "in"
  /\ cIn \in [masterKey : {"K1"}, plain : Plains, chunkSize : ChunkSizes]
  /\ cEnc = [err |-> NoErr, index |-> 0, frames |-> <<>>]
  /\ cStream = <<>>
  /\ cTamper = NoTamper
  /\ cDec = NoDec
  /\ procs = <<>>
  /\ StoreIdle

CodecEncrypt ==
  /\ cpc = "in"
  /\ \E salt \in Salts, noncePrefix \in NoncePrefixes, reads \in ReadSchedules :
       Bind(Encrypt(cIn.masterKey, cIn.plain, cIn.chunkSize, salt, noncePrefix, reads),
            LAMBDA e :
           /\ cStream' = e.out
           /\ cEnc' = [err |-> e.err, index |-> e.index,
                       frames |-> StreamFrames(e.out)])
  /\ cpc' = "enc"
  /\ UNCHANGED <<cIn, cTamper, cDec>>
  /\ UNCHANGED <<svars, procs>>

\* one byte after byte 0 is changed
CodecFlip ==
  /\ cpc = "enc"
  /\ \E pos \in 2..Len(cStream), d \in TamperXor :
       /\ cStream' = [cStream EXCEPT ![pos] = XorByte(@, d)]
       /\ cTamper' = [kind |-> "flip", a |-> pos, b |-> d]
  /\ cpc' = "tampered"
  /\ UNCHANGED <<cIn, cEnc, cDec>>
  /\ UNCHANGED <<svars, procs>>

\* records i < j (counted from 0) change places
CodecSwap ==
  /\ cpc = "enc"
  /\ LET fr == cEnc.frames
         piece(k) == SubSeq(cStream, fr[k].off, fr[k].off + fr[k].len - 1)
     IN  \E i \in 1..Len(fr), j \in 1..Len(fr) :
           /\ i < j
           /\ cStream' = SubSeq(cStream, 1, fr[i].off - 1) \o piece(j)
                           \o SubSeq(cStream, fr[i].off + fr[i].len, fr[j].off - 1)
                           \o piece(i)
                           \o SubSeq(cStream, fr[j].off + fr[j].len, Len(cStream))
           /\ cTamper' = [kind |-> "swap", a |-> i - 1, b |-> j - 1]
  /\ cpc' = "tampered"
  /\ UNCHANGED <<cIn, cEnc, cDec>>
  /\ UNCHANGED <<svars, procs>>

\* the stream ends after its first n bytes
CodecCut ==
  /\ cpc = "enc"
  /\ \E n \in 0..(Len(cStream) - 1) :
       /\ cStream' = SubSeq(cStream, 1, n)
       /\ cTamper' = [kind |-> "cut", a |-> n, b |-> 0]
  /\ cpc' = "tampered"
  /\ UNCHANGED <<cIn, cEnc, cDec>>
  /\ UNCHANGED <<svars, procs>>

\* the stream is decrypted: as it was written under any master key, a changed
\* one under the key it was written with
CodecDecrypt ==
  /\ cpc \in {"enc", "tampered"}
  /\ \E k \in MasterKeys :
       /\ cpc = "tampered" => k = cIn.masterKey
       /\ Bind(Decrypt(k, cStream), LAMBDA d :
            cDec' = [key |-> k, err |-> d.err, out |-> d.out, index |-> d.index])
  /\ cpc' = "dec"
  /\ UNCHANGED <<cIn, cEnc, cStream, cTamper>>
  /\ UNCHANGED <<svars, procs>>

CodecNext == CodecEncrypt \/ CodecFlip \/ CodecSwap \/ CodecCut \/ CodecDecrypt

SpecCodec == CodecInit /\ [][CodecNext]_vars

CodecIdle ==
  /\ procs = <<>>
  /\ cpc = "idle"
  /\ cIn = [masterKey |-> StoreKey, plain |-> <<>>, chunkSize |-> 0]
  /\ cEnc = [err |-> NoErr, index |-> 0, frames |-> <<>>]
  /\ cStream = <<>>
  /\ cTamper = NoTamper
  /\ cDec = NoDec

Init == StoreIdle /\ CodecIdle

\* put_whole: one UploadHandler request (replaced: it put new content where
\* an earlier put_whole had put another)
PutWhole ==
  /\ \E p \in LogicalPaths, u \in Uploads, rnd \in Rnds :
       Bind(UploadHandler(fs, StoreKey, p, u.content, rnd, u.reads), LAMBDA r :
           /\ fs' = r.fs
           /\ ret' = [NoRet EXCEPT !.op = "put_whole", !.meta.logicalPath = Clean(p),
                                   !.status = r.status,
                                   !.replaced = /\ latest[Clean(p)].set
                                                /\ latest[Clean(p)].data # u.content]
           /\ latest' = IF r.status = 200
                        THEN [latest EXCEPT ![Clean(p)] = [set |-> TRUE, data |-> u.content]]
                        ELSE latest)
  /\ UNCHANGED <<up, sent, hist>>
  /\ UNCHANGED <<cvars, procs>>

\* put_chunk: one IngestChunkStateless call
PutChunk ==
  /\ \E meta \in ChunkMetas, plain \in ChunkBodies, rnd \in Rnds :
       Bind(IngestChunkStateless(fs, StoreKey, meta, plain, rnd), LAMBDA r :
           /\ fs' = r.fs
           /\ ret' = [NoRet EXCEPT !.op = "put_chunk", !.err = r.err,
                                   !.assembled = r.assembled, !.final = r.path])
  /\ UNCHANGED <<latest, up, sent, hist>>
  /\ UNCHANGED <<cvars, procs>>

\* get: one DownloadHandler request
Get ==
  /\ \E p \in LogicalPaths, rnd \in Rnds :
       Bind(DownloadHandler(fs, StoreKey, p, rnd), LAMBDA r :
           /\ fs' = r.fs
           /\ ret' = [NoRet EXCEPT !.op = "get", !.meta.logicalPath = Clean(p),
                                   !.status = r.status, !.err = r.err,
                                   !.body = r.body])
  /\ UNCHANGED <<latest, up, sent, hist>>
  /\ UNCHANGED <<cvars, procs>>

Next == PutWhole \/ PutChunk \/ Get

Spec == Init /\ [][Next]_vars

(***************************************************************************)
(* One chunked upload into a fresh store: its chunks arrive one call at a  *)
(* time, in any order and with retries, until the call that assembles the  *)
(* file; the file can be read at any time.                                 *)
(***************************************************************************)
RECURSIVE SumLen(_)
SumLen(bodies) == IF bodies = <<>> THEN 0 ELSE Len(Head(bodies)) + SumLen(Tail(bodies))

UploadPlans ==
  UNION { { [fileID |-> id, chunkSize |-> UploadChunkSize, totalChunks |-> n,
             bodies |-> b, logicalPath |-> p, totalSize |-> SumLen(b), done |-> FALSE]
            : id \in UploadIDs, b \in [1..n -> ChunkBodies], p \in LogicalPaths }
          : n \in 1..MaxChunks }

MetaOf(u, i) ==
  [logicalPath |-> u.logicalPath, fileID |-> u.fileID, chunkSize |-> u.chunkSize,
   index |-> i, totalChunks |-> u.totalChunks, totalSize |-> u.totalSize]

UploadInit ==
  /\ fs = EmptyDisk
  /\ ret = NoRet
  /\ latest = [p \in CleanPaths |-> NoWrite]
  /\ up \in UploadPlans
  /\ sent = <<>>
  /\ hist = <<>>
  /\ CodecIdle

\* put_chunk for one index of the upload; sent is the order in which the
\* indices first arrived
UploadChunk ==
  /\ ~up.done
  /\ \E i \in 0..(up.totalChunks - 1), rnd \in Rnds :
       Bind(IngestChunkStateless(fs, StoreKey, MetaOf(up, i), up.bodies[i + 1], rnd),
            LAMBDA r :
           /\ fs' = r.fs
           /\ ret' = [NoRet EXCEPT !.op = "put_chunk", !.err = r.err,
                                   !.assembled = r.assembled, !.final = r.path]
           /\ up' = [up EXCEPT !.done = r.assembled]
           /\ sent' = IF \E k \in 1..Len(sent) : sent[k] = i THEN sent
                      ELSE Append(sent, i))
  /\ UNCHANGED <<latest, hist>>
  /\ UNCHANGED <<cvars, procs>>

\* get of the upload's logical path
UploadGet ==
  /\ \E rnd \in Rnds :
       Bind(DownloadHandler(fs, StoreKey, up.logicalPath, rnd), LAMBDA r :
           /\ fs' = r.fs
           /\ ret' = [NoRet EXCEPT !.op = "get", !.meta.logicalPath = Clean(up.logicalPath),
                                   !.status = r.status, !.err = r.err,
                                   !.body = r.body])
  /\ UNCHANGED <<latest, up, sent, hist>>
  /\ UNCHANGED <<cvars, procs>>

UploadNext == UploadChunk \/ UploadGet

SpecUpload == UploadInit /\ [][UploadNext]_vars

(***************************************************************************)
(* Any sequence of put_chunk calls into a fresh store, with the history of *)
(* what each call was given, whether it succeeded and whether it wrote a   *)
(* part file.                                                              *)
(***************************************************************************)
IngestInit == StoreIdle /\ CodecIdle

IngestCall ==
  /\ Len(hist) < MaxCalls
  /\ \E meta \in IngestMetas, plain \in ChunkBodies, rnd \in Rnds :
       Bind(IngestChunkStateless(fs, StoreKey, meta, plain, rnd), LAMBDA r :
           /\ fs' = r.fs
           /\ ret' = [NoRet EXCEPT !.op = "put_chunk", !.err = r.err,
                                   !.assembled = r.assembled, !.final = r.path]
           /\ hist' = Append(hist, [meta |-> meta, body |-> plain, ok |-> r.err = NoErr,
                                    assembled |-> r.assembled, wrote |-> r.wrote]))
  /\ UNCHANGED <<latest, up, sent>>
  /\ UNCHANGED <<cvars, procs>>

IngestNext == IngestCall

SpecIngest == IngestInit /\ [][IngestNext]_vars

(***************************************************************************)
(* An upload whose assembly was interrupted after the header was written:  *)
(* every part is staged, the manifest entry and the destination file       *)
(* exist, the file holds the header.  put_chunk calls of that upload and   *)
(* gets of its path follow.                                                *)
(***************************************************************************)
\* the disk after the chunks i.. of upload u were ingested in index order,
\* the assembly of the last call stopping after the header
RECURSIVE InterruptedFrom(_, _, _)
InterruptedFrom(f, u, i) ==
  IF i < u.totalChunks - 1
  THEN InterruptedFrom(
         IngestChunkStateless(f, StoreKey, MetaOf(u, i), u.bodies[i + 1], AnyRnd).fs,
         u, i + 1)
  ELSE Bind(deriveHeaderFor(StoreKey, u.fileID, u.chunkSize), LAMBDA sh :
    Bind(writePart(ensureRoot(f, StoreKey, AnyRnd).fs,
                   stagingDirFor(rootDir, u.fileID), i,
                   encryptRecord(StoreKey, sh, i, u.bodies[i + 1])).fs, LAMBDA w :
      assembleUntilHeader(w, StoreKey, u.logicalPath, sh, AnyRnd).fs))

\* the salts a manifest may be saved under after the interruption
LaterSalts == Salts \cup {[i \in 1..saltSize |-> [s |-> <<"lit">>, x |-> v]] : v \in {18}}
LaterRnds == [salt : LaterSalts, noncePrefix : NoncePrefixes, now : Times]

\* the uploads that are interrupted
CrashPlans == {u \in UploadPlans : u.logicalPath \in CleanPaths /\ u.fileID = <<"f", "1">>}

CrashInit ==
  /\ up \in CrashPlans
  /\ fs = InterruptedFrom(EmptyDisk, up, 0)
  /\ ret = NoRet
  /\ latest = [p \in CleanPaths |-> NoWrite]
  /\ sent = <<>>
  /\ hist = <<>>
  /\ CodecIdle

\* a put_chunk call of the upload: any of its indices, the body sent before
\* or another one, the upload's total or a smaller one
CrashPutChunk ==
  /\ \E t \in 1..up.totalChunks, plain \in ChunkBodies, rnd \in LaterRnds :
       \E i \in 0..(t - 1) :
         Bind(IngestChunkStateless(fs, StoreKey, [MetaOf(up, i) EXCEPT !.totalChunks = t],
                                   plain, rnd), LAMBDA r :
           /\ fs' = r.fs
           /\ ret' = [NoRet EXCEPT !.op = "put_chunk", !.meta.index = i,
                                   !.meta.totalChunks = t, !.err = r.err,
                                   !.assembled = r.assembled, !.final = r.path])
  /\ UNCHANGED <<latest, up, sent, hist>>
  /\ UNCHANGED <<cvars, procs>>

\* get of the upload's logical path
CrashGet ==
  /\ \E rnd \in LaterRnds :
       Bind(DownloadHandler(fs, StoreKey, up.logicalPath, rnd), LAMBDA r :
           /\ fs' = r.fs
           /\ ret' = [NoRet EXCEPT !.op = "get", !.meta.logicalPath = Clean(up.logicalPath),
                                   !.status = r.status, !.err = r.err,
                                   !.body = r.body])
  /\ UNCHANGED <<latest, up, sent, hist>>
  /\ UNCHANGED <<cvars, procs>>

CrashNext == CrashPutChunk \/ CrashGet

SpecCrash == CrashInit /\ [][CrashNext]_vars

(***************************************************************************)
(* Requests put_chunk has to refuse, arriving at a store that is empty or  *)
(* holds what up to MaxSetup earlier put_chunk calls left.                 *)
(***************************************************************************)
RejectInit == StoreIdle /\ CodecIdle

\* a put_chunk call that prepares the disk
RejectSetup ==
  /\ Len(hist) < MaxSetup
  /\ \E meta \in ChunkMetas, plain \in ChunkBodies, rnd \in Rnds :
       Bind(IngestChunkStateless(fs, StoreKey, meta, plain, rnd), LAMBDA r :
           /\ fs' = r.fs
           /\ ret' = [NoRet EXCEPT !.op = "put_chunk", !.err = r.err,
                                   !.assembled = r.assembled, !.final = r.path]
           /\ hist' = Append(hist, [meta |-> meta, body |-> plain, ok |-> r.err = NoErr,
                                    assembled |-> r.assembled, wrote |-> r.wrote]))
  /\ UNCHANGED <<latest, up, sent>>
  /\ UNCHANGED <<cvars, procs>>

\* a put_chunk call with a request of BadRequests
RejectCall ==
  /\ \E req \in BadRequests, rnd \in Rnds :
       Bind(IngestChunkStateless(fs, StoreKey, req.meta, req.body, rnd), LAMBDA r :
           /\ fs' = r.fs
           /\ ret' = [NoRet EXCEPT !.op = "put_chunk_bad", !.meta = req.meta,
                                   !.data = req.body, !.err = r.err,
                                   !.assembled = r.assembled, !.final = r.path])
  /\ UNCHANGED <<latest, up, sent, hist>>
  /\ UNCHANGED <<cvars, procs>>

RejectNext == RejectSetup \/ RejectCall

SpecReject == RejectInit /\ [][RejectNext]_vars

(***************************************************************************)
(* Claims about the codec (checked under SpecCodec).                       *)
(***************************************************************************)
\* plaintext bytes held by the first k records of the stream as encrypted
RECURSIVE PlainIn(_, _)
PlainIn(fr, k) ==
  IF k = 0 THEN 0 ELSE PlainIn(fr, k - 1) + (fr[k].len - 4 - gcmTagSize)

\* the record (counted from 0) that byte pos of the stream belongs to
RecordAt(fr, pos) ==
  (CHOOSE k \in 1..Len(fr) : fr[k].off <= pos /\ pos < fr[k].off + fr[k].len) - 1

\* the records that lie wholly within the first n bytes
CompleteIn(fr, n) == Cardinality({k \in 1..Len(fr) : fr[k].off + fr[k].len - 1 <= n})

AtRecordBoundary(fr, n) ==
  \/ n = headerSize
  \/ \E k \in 1..Len(fr) : n = fr[k].off + fr[k].len - 1

Decrypted(kind) == cpc = "dec" /\ cTamper.kind = kind

\* C1: round trip.  Encrypt succeeds for every plaintext (the empty one too),
\* every chunk size (<= 0 meaning the default) and every way the reader splits
\* its reads, and Decrypt under the same master key succeeds, writes exactly
\* the plaintext, and consumes as many records as Encrypt emitted, in order.
C1_RoundTrip ==
  /\ cpc # "in" => cEnc.err = NoErr /\ cEnc.index = Len(cEnc.frames)
  /\ (Decrypted("none") /\ cDec.key = cIn.masterKey) =>
       /\ cDec.err = NoErr
       /\ cDec.out = cIn.plain
       /\ cDec.index = cEnc.index

C1_Witness ==
  /\ Decrypted("none") /\ cDec.key = cIn.masterKey
  /\ cEnc.index >= 2 /\ cDec.index = cEnc.index
  /\ cDec.out = cIn.plain /\ Len(cIn.plain) >= 2

\* C7 as claimed: for every plaintext, the empty one included, changing any
\* single byte after byte 0 makes Decrypt fail: with AuthFailed(0) for a header
\* byte, and with a truncated-frame error or AuthFailed at the record's index
\* for a byte of a record.
C7_TamperEvidentAnyPlain ==
  Decrypted("flip") =>
     IF cTamper.a <= headerSize
     THEN cDec.err = AuthFailed(0)
     ELSE \/ cDec.err = AuthFailed(RecordAt(cEnc.frames, cTamper.a))
          \/ cDec.err \in {Err("ErrUnexpectedEOF"), Err("EOF")}

\* C7 amended: for every NON-EMPTY plaintext, changing any single byte after
\* byte 0 makes Decrypt fail: with AuthFailed(0) for a header byte, and with
\* a truncated-frame error or AuthFailed at the record's index for a byte of
\* a record (length prefix or body).
C7_TamperEvident ==
  (Decrypted("flip") /\ Len(cIn.plain) > 0) =>
     IF cTamper.a <= headerSize
     THEN cDec.err = AuthFailed(0)
     ELSE \/ cDec.err = AuthFailed(RecordAt(cEnc.frames, cTamper.a))
          \/ cDec.err \in {Err("ErrUnexpectedEOF"), Err("EOF")}

C7_Witness ==
  /\ Decrypted("flip") /\ Len(cIn.plain) > 0
  /\ cTamper.a > headerSize
  /\ RecordAt(cEnc.frames, cTamper.a) = 1
  /\ cDec.err = AuthFailed(1)

\* C8 as claimed: Decrypt under another master key fails with AuthFailed(0)
\* for every plaintext.
C8_WrongKeyAnyPlain ==
  (Decrypted("none") /\ cDec.key # cIn.masterKey) =>
     cDec.err = AuthFailed(0) /\ cDec.out = <<>>

\* C8 amended: for every NON-EMPTY plaintext, Decrypt under a master key other
\* than the encrypting one fails with AuthFailed at index 0 and writes nothing.
C8_WrongKey ==
  (Decrypted("none") /\ cDec.key # cIn.masterKey /\ Len(cIn.plain) > 0) =>
     cDec.err = AuthFailed(0) /\ cDec.out = <<>>

C8_Witness ==
  /\ Decrypted("none") /\ cDec.key # cIn.masterKey /\ Len(cIn.plain) > 0
  /\ cDec.err = AuthFailed(0)

\* C9: with records i < j swapped, Decrypt fails with AuthFailed at index i,
\* having written exactly the plaintext of records 0..i-1.
C9_ReorderDetected ==
  Decrypted("swap") =>
     /\ cDec.err = AuthFailed(cTamper.a)
     /\ cDec.out = SubSeq(cIn.plain, 1, PlainIn(cEnc.frames, cTamper.a))

C9_Witness ==
  /\ Decrypted("swap") /\ cTamper.a = 1 /\ cTamper.b = 2
  /\ cDec.err = AuthFailed(1) /\ Len(cDec.out) > 0

\* C10: a stream that ends at a record boundary (right after the header
\* included) decrypts without error to the plaintext of its complete records;
\* one that ends inside a length prefix or a record body makes Decrypt fail.
C10_EndOfStream ==
  (Decrypted("cut") /\ cTamper.a >= headerSize) =>
     IF AtRecordBoundary(cEnc.frames, cTamper.a)
     THEN /\ cDec.err = NoErr
          /\ cDec.index = CompleteIn(cEnc.frames, cTamper.a)
          /\ cDec.out = SubSeq(cIn.plain, 1,
                               PlainIn(cEnc.frames, CompleteIn(cEnc.frames, cTamper.a)))
     ELSE cDec.err # NoErr

C10_Witness ==
  /\ Decrypted("cut") /\ cTamper.a > headerSize
  /\ AtRecordBoundary(cEnc.frames, cTamper.a)
  /\ cDec.err = NoErr /\ Len(cDec.out) > 0 /\ Len(cDec.out) < Len(cIn.plain)

(***************************************************************************)
(* Claims about the store.                                                 *)
(***************************************************************************)

\* what get(p) answers on disk f: a DownloadHandler request for p
GetResult(f, p) ==
  Bind(DownloadHandler(f, StoreKey, p, AnyRnd), LAMBDA r :
    [status |-> r.status, err |-> r.err, body |-> r.body])

\* the manifest entry a listing of p's parent shows for p's last name: the
\* parent is resolved as for a read, its manifest loaded and searched
EntryOf(f, p) ==
  Bind(resolveParentDir(f, StoreKey, p, FALSE, AnyRnd), LAMBDA d :
    IF d.err # NoErr THEN [found |-> FALSE, entry |-> FileEntry("", "", 0)]
    ELSE Bind(loadManifest(d.fs, StoreKey, d.dir), LAMBDA l :
      Bind(findEntry(l.m, d.name, "file"), LAMBDA e :
        IF l.err # NoErr \/ e = 0 THEN [found |-> FALSE, entry |-> FileEntry("", "", 0)]
        ELSE [found |-> TRUE, entry |-> l.m.entries[e]])))

\* every path put_whole has written reads back as its latest content and is
\* listed as a file of that size
LatestReadsBack ==
  \A p \in CleanPaths :
    latest[p].set =>
      /\ GetResult(fs, p) = [status |-> 200, err |-> NoErr, body |-> latest[p].data]
      /\ EntryOf(fs, p).found
      /\ EntryOf(fs, p).entry.type = "file"
      /\ EntryOf(fs, p).entry.size = Len(latest[p].data)

\* a put_whole leaves what get answers for every other path as it was
OtherPathsKept ==
  ret'.op = "put_whole" /\ ret'.status = 200 =>
    \A q \in CleanPaths \ {ret'.meta.logicalPath} : GetResult(fs', q) = GetResult(fs, q)

\* C2: after any sequence of successful put_whole calls (with chunk uploads
\* and gets in between), get(p) returns the content of the most recent
\* put_whole to p, p's manifest entry is a file of that content's length, and
\* a put_whole to one path leaves get of every other path unchanged.
C2_PutWholeThenGet == [](LatestReadsBack) /\ [][OtherPathsKept]_vars

\* A put_whole has replaced the different content of an earlier one, and
\* another path holds content of its own.
C2_Witness ==
  /\ ret.op = "put_whole" /\ ret.status = 200 /\ ret.replaced
  /\ Len(latest[ret.meta.logicalPath].data) > 0
  /\ \E q \in CleanPaths :
       /\ q # ret.meta.logicalPath
       /\ latest[q].set
       /\ latest[q].data # latest[ret.meta.logicalPath].data

(***************************************************************************)
(* Claims about one chunked upload (checked under SpecUpload).             *)
(***************************************************************************)
\* the records of the upload's chunks from index i on, in index order
RECURSIVE RecordsFrom(_, _)
RecordsFrom(u, i) ==
  IF i >= u.totalChunks THEN <<>>
  ELSE encryptRecord(StoreKey, deriveHeaderFor(StoreKey, u.fileID, u.chunkSize), i,
                     u.bodies[i + 1]) \o RecordsFrom(u, i + 1)

\* the bodies of the upload's chunks from index i on, in index order
RECURSIVE BodiesFrom(_, _)
BodiesFrom(u, i) ==
  IF i >= u.totalChunks THEN <<>> ELSE u.bodies[i + 1] \o BodiesFrom(u, i + 1)

AllSent == {sent[k] : k \in 1..Len(sent)} = 0..(up.totalChunks - 1)

\* C3: whatever the order in which the chunks of an upload arrived, the
\* assembled destination file is the header derived from (master key,
\* file id, chunk size) followed by the records in ascending index order --
\* a value the arrival order does not enter -- and decrypting it gives the
\* bodies concatenated in index order.
C3_ArrivalOrderIndependent ==
  up.done =>
    Bind(ResolveForRead(fs, StoreKey, up.logicalPath, AnyRnd), LAMBDA r :
      /\ r.err = NoErr
      /\ Bind(ReadFile(r.fs, r.path), LAMBDA file :
           /\ file.err = NoErr
           /\ file.data = deriveHeaderFor(StoreKey, up.fileID, up.chunkSize).hdr
                            \o RecordsFrom(up, 0)
           /\ Decrypt(StoreKey, file.data) =
                [err |-> NoErr, out |-> BodiesFrom(up, 0), index |-> up.totalChunks]))

\* Three chunks arrived in the order 2, 0, 1 and were assembled.
C3_Witness == up.done /\ sent = <<2, 0, 1>>

\* C4: in an upload of one file to a fresh path, every put_chunk succeeds,
\* returns assembled = false while some index has no part yet, and returns
\* assembled = true with the logical path on the call that brings the last
\* missing part; from then on get of the path returns the bodies
\* concatenated in index order.
C4_AssembledOnLastPart ==
  /\ ret.op = "put_chunk" =>
       /\ ret.err = NoErr
       /\ ret.assembled <=> AllSent
       /\ ret.assembled => ret.final = up.logicalPath
       /\ ~ret.assembled => ret.final = <<>>
  /\ up.done <=> AllSent
  /\ up.done =>
       GetResult(fs, up.logicalPath) =
         [status |-> 200, err |-> NoErr, body |-> BodiesFrom(up, 0)]

\* An upload of several chunks has been assembled and read back.
C4_Witness ==
  /\ up.done /\ up.totalChunks >= 2
  /\ ret.op = "get" /\ ret.status = 200 /\ ret.body = BodiesFrom(up, 0)

(***************************************************************************)
(* Claims about sequences of put_chunk calls (checked under SpecIngest).   *)
(***************************************************************************)
\* C5: a put_chunk that repeats an earlier successful call (same file id,
\* index, body, chunk size, total chunks and logical path) succeeds again
\* and writes no part: the part of the first call is the only one written.
C5_IdempotentRetry ==
  \A i, j \in 1..Len(hist) :
    (i < j /\ hist[i].ok /\ hist[j].meta = hist[i].meta /\ hist[j].body = hist[i].body)
      => hist[j].ok /\ ~hist[j].wrote

\* C6: no call persists a record for a (file id, index) for which an
\* earlier call persisted a record of another body.
C6_OneBodyPerIndex ==
  \A i, j \in 1..Len(hist) :
    (i < j /\ hist[i].wrote /\ hist[j].wrote
       /\ hist[j].meta.fileID = hist[i].meta.fileID
       /\ hist[j].meta.index = hist[i].meta.index)
      => hist[j].body = hist[i].body

(***************************************************************************)
(* Claims about the shape of stored files.                                 *)
(***************************************************************************)
\* the bytes of the physical file of logical path p on disk f
StoredFile(f, p) ==
  Bind(ResolveForRead(f, StoreKey, p, AnyRnd), LAMBDA r :
    IF r.err # NoErr THEN [found |-> FALSE, data |-> <<>>]
    ELSE Bind(ReadFile(r.fs, r.path), LAMBDA file :
      [found |-> file.err = NoErr, data |-> file.data]))

\* the plaintext length of every record of stream r is at most the chunk
\* size its header names, and is that size for every record but the last
ChunkingKept(r) ==
  Bind(readHeader(r), LAMBDA h :
    /\ h.err = NoErr
    /\ Bind(StreamFrames(r), LAMBDA fr :
         \A k \in 1..Len(fr) :
           /\ fr[k].len - 4 - gcmTagSize <= h.chunkSize
           /\ k < Len(fr) => fr[k].len - 4 - gcmTagSize = h.chunkSize))

\* the file put_chunk assembles keeps the chunking (checked under SpecUpload)
AssembledChunking ==
  up.done => Bind(StoredFile(fs, up.logicalPath), LAMBDA file :
               file.found /\ ChunkingKept(file.data))

\* C18: every stream Encrypt writes, whatever the sizes of the reads its
\* reader returns, holds at most chunk_size plaintext bytes per record and
\* exactly chunk_size in every record but the last (the same is stated of
\* the files put_chunk assembles by AssembledChunking).
C18_ChunkingKept == cpc = "enc" /\ cEnc.err = NoErr => ChunkingKept(cStream)

\* C19: whatever put_chunk calls were made, also ones that name the same
\* file id with another chunk size or total, a destination file for which
\* put_chunk returned assembled = true is a header followed by records that
\* Decrypt authenticates one after the other under that header: record i
\* with the header's key and nonce prefix, index i and AAD header || i.
C19_AssembledAuthenticates ==
  \A k \in 1..Len(hist) :
    hist[k].assembled =>
      Bind(StoredFile(fs, hist[k].meta.logicalPath), LAMBDA file :
        /\ file.found
        /\ Bind(Decrypt(StoreKey, file.data), LAMBDA d :
             d.err = NoErr /\ d.index = Len(StreamFrames(file.data))))

(***************************************************************************)
(* Claims about refused requests (checked under SpecReject).               *)
(***************************************************************************)
\* C20: put_chunk answers a request with chunk_size <= 0, an empty body, a
\* body longer than chunk_size, total_chunks <= 0, index >= total_chunks, an
\* empty logical path or an empty file id with an error and assembled =
\* false, and leaves the disk exactly as it found it.
C20_BadRequestRefused ==
  [][ret'.op = "put_chunk_bad" =>
       /\ ret'.err # NoErr
       /\ ~ret'.assembled
       /\ fs' = fs]_vars

\* A request with a body longer than its chunk size has been refused by a
\* store that holds a staged part.
C20_Witness ==
  /\ ret.op = "put_chunk_bad" /\ ret.err # NoErr
  /\ Len(ret.data) > ret.meta.chunkSize /\ ret.meta.chunkSize > 0
  /\ \E k \in 1..Len(hist) : hist[k].wrote /\ ~hist[k].assembled
  /\ IsDir(fs, stagingDirFor(rootDir, ret.meta.fileID))

(***************************************************************************)
(* Claims about an interrupted assembly (checked under SpecCrash).         *)
(***************************************************************************)
IsManifest(p) == p[Len(p)] = manifestFileName

\* what disk f holds apart from the bytes a manifest is encrypted to: every
\* path with its kind, every manifest decrypted, every other file's bytes
Contents(f) ==
  [p \in DOMAIN f |->
     IF f[p].kind = "file" /\ IsManifest(p)
     THEN [kind |-> "manifest", m |-> loadManifest(f, StoreKey, Parent(p))]
     ELSE f[p]]

\* C14: once an assembly has stopped between the write of the header and
\* the first part, every later put_chunk call of the upload (all parts are
\* there for it) fails with the exclusive create's "file exists" and leaves
\* the destination file, every manifest's entries and the staged parts as
\* they were.
C14_NotRecovered ==
  [][ret'.op = "put_chunk" =>
       /\ ret'.err = Err("EEXIST")
       /\ ~ret'.assembled
       /\ Contents(fs') = Contents(fs)]_vars

\* A call of a two-chunk upload has failed; the destination holds the header
\* alone and the root manifest has been saved again under another salt.
C14_Witness ==
  /\ ret.op = "put_chunk" /\ ret.err = Err("EEXIST")
  /\ up.totalChunks >= 2
  /\ StoredFile(fs, up.logicalPath).data =
       deriveHeaderFor(StoreKey, up.fileID, up.chunkSize).hdr
  /\ fs # InterruptedFrom(EmptyDisk, up, 0)
  /\ haveAllParts(fs, stagingDirFor(rootDir, up.fileID), up.totalChunks)

(***************************************************************************)
(* Requests that run at the same time.  The server runs every request in   *)
(* its own goroutine and no code of the store takes a lock: the disk is    *)
(* all the goroutines share.  A goroutine is the list of the frames it has *)
(* left to run, a frame being a place in a function (fn, at) and the       *)
(* values x the function holds there.  A frame of fn "sys" is one system   *)
(* call and is one step of the machine; every other frame is the code      *)
(* between two system calls and runs together with the system call before  *)
(* it.  The registers rv hold what the last call returned.                 *)
(***************************************************************************)
Procs == {"a", "b"}

\* randSlugHex(16) in a goroutine: the draws of two goroutines differ, as 128
\* random bits do.
ProcSlugs ==
  [a |-> <<"a1", "a2", "a3", "a4", "a5", "a6">>,
   b |-> <<"b1", "b2", "b3", "b4", "b5", "b6">>]
SlugDraw(self, n) ==
  IF n <= Len(ProcSlugs[self]) THEN ProcSlugs[self][n]
  ELSE ProcSlugs[self][Len(ProcSlugs[self])]

\* the salt, nonce prefix and clock a goroutine draws for its Encrypt calls
ProcSalt == [a |-> 17, b |-> 18]
ProcRnd(self) ==
  [salt |-> [i \in 1..saltSize |-> [s |-> <<"lit">>, x |-> ProcSalt[self]]],
   noncePrefix |-> AnyRnd.noncePrefix, now |-> AnyRnd.now]

Fr(fn, at, x) == [fn |-> fn, at |-> at, x |-> x]
Sys(at, x) == Fr("sys", at, x)
Call(fn, x) == Fr(fn, "call", x)

NoFd == [path |-> <<>>, off |-> 0]
NoRv ==
  [err |-> NoErr, m |-> EmptyManifest, dir |-> <<>>, name |-> "", path |-> <<>>,
   data |-> <<>>, flag |-> FALSE]
NoRes ==
  [done |-> FALSE, err |-> NoErr, assembled |-> FALSE, wrote |-> FALSE,
   status |-> 0, body |-> <<>>]

\* (*os.File).Write at the offset of the descriptor
WriteAt(old, off, data) ==
  Take(old, off) \o [i \in 1..(off - Min(off, Len(old))) |-> Lit(0)] \o data \o
  Drop(old, off + Len(data))

\* The system call fr of the goroutine pr on the disk f: the disk it leaves,
\* the registers and the open descriptor of the goroutine.
\*   mkdirall  os.MkdirAll(x)
\*   load      loadManifest(x): the read of .manifest and its decryption
\*   create    os.OpenFile(x.path, O_CREATE|O_WRONLY|O_TRUNC), with O_EXCL
\*             when x.excl
\*   write     Write on the open descriptor, and Close when x.close; a file
\*             that was unlinked or replaced since it was opened takes the
\*             bytes with it
\*   rename    os.Rename(x.from, x.to)
\*   readfile  os.ReadFile(x), and os.Open(x) followed by reading to the end
\*   stat      os.Stat(x)
\*   removeall os.RemoveAll(x)
SysCall(f, pr, fr) ==
  CASE fr.at = "mkdirall" ->
         Bind(MkdirAll(f, fr.x), LAMBDA d :
           [fs |-> d.fs, rv |-> [pr.rv EXCEPT !.err = d.err], fd |-> pr.fd])
    [] fr.at = "load" ->
         Bind(loadManifest(f, StoreKey, fr.x), LAMBDA l :
           [fs |-> f, rv |-> [pr.rv EXCEPT !.err = l.err, !.m = l.m], fd |-> pr.fd])
    [] fr.at = "create" ->
         Bind(WriteFile(f, fr.x.path, <<>>, fr.x.excl), LAMBDA o :
           [fs |-> o.fs, rv |-> [pr.rv EXCEPT !.err = o.err],
            fd |-> IF o.err = NoErr THEN [path |-> fr.x.path, off |-> 0] ELSE NoFd])
    [] fr.at = "write" ->
         [fs |-> IF IsFile(f, pr.fd.path)
                 THEN [f EXCEPT ![pr.fd.path] =
                         FileNode(WriteAt(@.data, pr.fd.off, fr.x.data))]
                 ELSE f,
          rv |-> [pr.rv EXCEPT !.err = NoErr],
          fd |-> IF fr.x.close THEN NoFd ELSE [pr.fd EXCEPT !.off = @ + Len(fr.x.data)]]
    [] fr.at = "rename" ->
         Bind(Rename(f, fr.x.from, fr.x.to), LAMBDA r :
           [fs |-> r.fs, rv |-> [pr.rv EXCEPT !.err = r.err], fd |-> pr.fd])
    [] fr.at = "readfile" ->
         Bind(ReadFile(f, fr.x), LAMBDA r :
           [fs |-> f, rv |-> [pr.rv EXCEPT !.err = r.err, !.data = r.data], fd |-> pr.fd])
    [] fr.at = "stat" ->
         [fs |-> f, rv |-> [pr.rv EXCEPT !.err = NoErr, !.flag = fr.x \in DOMAIN f],
          fd |-> pr.fd]
    [] fr.at = "removeall" ->
         [fs |-> RemoveAll(f, fr.x), rv |-> [pr.rv EXCEPT !.err = NoErr], fd |-> pr.fd]

\* What a system call of another goroutine does to an open descriptor: a
\* descriptor follows its file when the file is renamed, and is left with an
\* unlinked file when the file is removed or another file is renamed over
\* it.
FdAfter(fd, fr, ok) ==
  IF ~ok \/ fd.path = <<>> THEN fd
  ELSE IF fr.at = "rename"
  THEN (IF fd.path = fr.x.to THEN NoFd
        ELSE IF fd.path = fr.x.from THEN [fd EXCEPT !.path = fr.x.to]
        ELSE fd)
  ELSE IF fr.at = "removeall" /\ IsUnder(fr.x, fd.path) THEN NoFd
  ELSE fd

(***************************************************************************)
(* The code between the system calls: for every function of the store, the *)
(* frames it puts in its own place (Push) when it is called and at every   *)
(* place it comes back to, until it returns to its caller (Pop, or Ret     *)
(* with new registers).                                                    *)
(***************************************************************************)
Push(pr, frames) == [pr EXCEPT !.k = frames \o Tail(@)]
Pop(pr) == [pr EXCEPT !.k = Tail(@)]
Ret(pr, rv) == [pr EXCEPT !.k = Tail(@), !.rv = rv]
\* the request is answered
Finish(pr, res) == [pr EXCEPT !.k = <<>>, !.fd = NoFd, !.rv = NoRv, !.res = res]
\* a nil dereference: gin's Recovery ends the request with a 500
Panic(pr) ==
  Finish(pr, [pr.res EXCEPT !.done = TRUE, !.err = Err("panic"), !.status = 500])

\* saveManifest(x.dir, x.m): os.WriteFile(.manifest.tmp) is open, write and
\* close; then os.Rename
saveManifestSteps(pr, fr, self) ==
  CASE fr.at = "call" ->
         Push(pr, << Sys("create", [path |-> Append(fr.x.dir, manifestTmpName),
                                    excl |-> FALSE]),
                     Fr("saveManifest", "opened",
                        [dir |-> fr.x.dir,
                         data |-> encryptBytes(StoreKey, Marshal(fr.x.m),
                                               ProcRnd(self)).out]) >>)
    [] fr.at = "opened" ->
         IF pr.rv.err # NoErr THEN Pop(pr)
         ELSE Push(pr, << Sys("write", [data |-> fr.x.data, close |-> TRUE]),
                          Sys("rename", [from |-> Append(fr.x.dir, manifestTmpName),
                                         to |-> manifestPath(fr.x.dir)]) >>)

ensureRootSteps(pr, fr, self) ==
  CASE fr.at = "call" ->
         Push(pr, << Sys("mkdirall", rootDir), Fr("ensureRoot", "made", <<>>) >>)
    [] fr.at = "made" ->
         IF pr.rv.err # NoErr THEN Pop(pr)
         ELSE Push(pr, << Sys("load", rootDir), Fr("ensureRoot", "loaded", <<>>) >>)
    [] fr.at = "loaded" ->
         IF pr.rv.err # NoErr THEN Pop(pr)
         ELSE Push(pr, << Call("saveManifest", [dir |-> rootDir, m |-> pr.rv.m]) >>)

\* resolveParentDir(x.logicalPath, x.create) with its loop over the
\* directory segments: "walk" is the head of the loop, "made" and "saved"
\* are in the creation of a missing directory, whose errors are not looked
\* at.
resolveParentDirSteps(pr, fr, self) ==
  CASE fr.at = "call" ->
         Push(pr, << Call("ensureRoot", <<>>),
                     Fr("resolveParentDir", "rooted",
                        [parts |-> PathParts(fr.x.logicalPath),
                         create |-> fr.x.create]) >>)
    [] fr.at = "rooted" ->
         IF pr.rv.err # NoErr THEN Ret(pr, [pr.rv EXCEPT !.dir = <<>>, !.name = ""])
         ELSE Push(pr, << Fr("resolveParentDir", "walk",
                             [cur |-> rootDir,
                              dirs |-> SubSeq(fr.x.parts, 1, Len(fr.x.parts) - 1),
                              name |-> fr.x.parts[Len(fr.x.parts)],
                              create |-> fr.x.create]) >>)
    [] fr.at = "walk" ->
         IF fr.x.dirs = <<>>
         THEN Ret(pr, [pr.rv EXCEPT !.err = NoErr, !.dir = fr.x.cur, !.name = fr.x.name])
         ELSE Push(pr, << Sys("load", fr.x.cur),
                          Fr("resolveParentDir", "loaded", fr.x) >>)
    [] fr.at = "loaded" ->
         IF pr.rv.err # NoErr THEN Ret(pr, [pr.rv EXCEPT !.dir = <<>>, !.name = ""])
         ELSE Bind(findEntry(pr.rv.m, Head(fr.x.dirs), "dir"), LAMBDA e :
           IF e # 0
           THEN Push(pr, << Fr("resolveParentDir", "walk",
                               [fr.x EXCEPT !.cur = Join(@, <<pr.rv.m.entries[e].enc>>),
                                            !.dirs = Tail(@)]) >>)
           ELSE IF ~fr.x.create
           THEN Ret(pr, [pr.rv EXCEPT !.err = DirNotFound(Head(fr.x.dirs)), !.dir = <<>>,
                                      !.name = ""])
           ELSE Bind(SlugDraw(self, pr.draws + 1), LAMBDA slug :
             Push([pr EXCEPT !.draws = @ + 1],
                  << Sys("mkdirall", Join(fr.x.cur, <<slug>>)),
                     Fr("resolveParentDir", "made",
                        [cur |-> fr.x.cur, dirs |-> fr.x.dirs, name |-> fr.x.name,
                         create |-> fr.x.create, slug |-> slug,
                         m |-> [pr.rv.m EXCEPT !.entries =
                                  Append(@, DirEntry(Head(fr.x.dirs), slug,
                                                     ProcRnd(self).now))]]) >>)))
    [] fr.at = "made" ->
         Push(pr, << Call("saveManifest", [dir |-> fr.x.cur, m |-> fr.x.m]),
                     Fr("resolveParentDir", "saved", fr.x) >>)
    [] fr.at = "saved" ->
         Push(pr, << Call("saveManifest", [dir |-> Join(fr.x.cur, <<fr.x.slug>>),
                                           m |-> EmptyManifest]),
                     Fr("resolveParentDir", "walk",
                        [cur |-> Join(fr.x.cur, <<fr.x.slug>>), dirs |-> Tail(fr.x.dirs),
                         name |-> fr.x.name, create |-> fr.x.create]) >>)

\* ResolveForCreate(x): the entry of a new file is saved before the caller
\* creates the file; the error of loadManifest is not looked at and the nil
\* manifest is dereferenced.
ResolveForCreateSteps(pr, fr, self) ==
  CASE fr.at = "call" ->
         Push(pr, << Call("resolveParentDir", [logicalPath |-> fr.x, create |-> TRUE]),
                     Fr("ResolveForCreate", "parent", <<>>) >>)
    [] fr.at = "parent" ->
         IF pr.rv.err # NoErr THEN Ret(pr, [pr.rv EXCEPT !.path = <<>>])
         ELSE Push(pr, << Sys("load", pr.rv.dir),
                          Fr("ResolveForCreate", "loaded",
                             [dir |-> pr.rv.dir, name |-> pr.rv.name]) >>)
    [] fr.at = "loaded" ->
         IF pr.rv.err # NoErr THEN Panic(pr)
         ELSE Bind(findEntry(pr.rv.m, fr.x.name, "file"), LAMBDA e :
           IF e # 0
           THEN Ret(pr, [pr.rv EXCEPT !.path =
                           Join(fr.x.dir, BinName(pr.rv.m.entries[e].enc))])
           ELSE Bind(SlugDraw(self, pr.draws + 1), LAMBDA slug :
             Push([pr EXCEPT !.draws = @ + 1],
                  << Call("saveManifest",
                          [dir |-> fr.x.dir,
                           m |-> [pr.rv.m EXCEPT !.entries =
                                    Append(@, FileEntry(fr.x.name, slug,
                                                        ProcRnd(self).now))]]),
                     Fr("ResolveForCreate", "saved",
                        Join(fr.x.dir, BinName(slug))) >>)))
    [] fr.at = "saved" -> Ret(pr, [pr.rv EXCEPT !.err = NoErr, !.path = fr.x])

ResolveForReadSteps(pr, fr, self) ==
  CASE fr.at = "call" ->
         Push(pr, << Call("resolveParentDir", [logicalPath |-> fr.x, create |-> FALSE]),
                     Fr("ResolveForRead", "parent", <<>>) >>)
    [] fr.at = "parent" ->
         IF pr.rv.err # NoErr THEN Ret(pr, [pr.rv EXCEPT !.path = <<>>])
         ELSE Push(pr, << Sys("load", pr.rv.dir),
                          Fr("ResolveForRead", "loaded",
                             [dir |-> pr.rv.dir, name |-> pr.rv.name]) >>)
    [] fr.at = "loaded" ->
         IF pr.rv.err # NoErr THEN Panic(pr)
         ELSE Bind(findEntry(pr.rv.m, fr.x.name, "file"), LAMBDA e :
           IF e # 0
           THEN Ret(pr, [pr.rv EXCEPT !.path =
                           Join(fr.x.dir, BinName(pr.rv.m.entries[e].enc))])
           ELSE Ret(pr, [pr.rv EXCEPT !.err = Err("FileNotFound"), !.path = <<>>]))

\* UpdateFileMeta(x.logicalPath, x.size)
UpdateFileMetaSteps(pr, fr, self) ==
  CASE fr.at = "call" ->
         Push(pr, << Call("resolveParentDir",
                          [logicalPath |-> fr.x.logicalPath, create |-> FALSE]),
                     Fr("UpdateFileMeta", "parent", fr.x) >>)
    [] fr.at = "parent" ->
         IF pr.rv.err # NoErr THEN Pop(pr)
         ELSE Push(pr, << Sys("load", pr.rv.dir),
                          Fr("UpdateFileMeta", "loaded",
                             [dir |-> pr.rv.dir, name |-> pr.rv.name,
                              size |-> fr.x.size]) >>)
    [] fr.at = "loaded" ->
         IF pr.rv.err # NoErr THEN Panic(pr)
         ELSE Bind(findEntry(pr.rv.m, fr.x.name, "file"), LAMBDA e :
           IF e = 0 THEN Ret(pr, [pr.rv EXCEPT !.err = Err("FileMissing")])
           ELSE Push(pr, << Call("saveManifest",
                                 [dir |-> fr.x.dir,
                                  m |-> [pr.rv.m EXCEPT
                                           !.entries[e].size = fr.x.size,
                                           !.entries[e].modTime = ProcRnd(self).now]]) >>))

\* writePart(x.staging, x.idx, x.record); res.wrote marks the goroutine that
\* created the part
writePartSteps(pr, fr, self) ==
  CASE fr.at = "call" ->
         Push(pr, << Sys("mkdirall", fr.x.staging), Fr("writePart", "made", fr.x) >>)
    [] fr.at = "made" ->
         IF pr.rv.err # NoErr THEN Pop(pr)
         ELSE Push(pr, << Sys("create", [path |-> Join(fr.x.staging, PartName(fr.x.idx)),
                                         excl |-> TRUE]),
                          Fr("writePart", "opened", fr.x) >>)
    [] fr.at = "opened" ->
         IF pr.rv.err = Err("EEXIST") THEN Ret(pr, [pr.rv EXCEPT !.err = NoErr])
         ELSE IF pr.rv.err # NoErr THEN Pop(pr)
         ELSE Push([pr EXCEPT !.res.wrote = TRUE],
                   << Sys("write", [data |-> fr.x.record, close |-> TRUE]) >>)

\* haveAllParts(x.staging, x.total): one os.Stat for every part, x.i the part
\* it is at
haveAllPartsSteps(pr, fr, self) ==
  CASE fr.at = "call" ->
         IF fr.x.i >= fr.x.total
         THEN Ret(pr, [pr.rv EXCEPT !.err = NoErr, !.flag = TRUE])
         ELSE Push(pr, << Sys("stat", Join(fr.x.staging, PartName(fr.x.i))),
                          Fr("haveAllParts", "stat", fr.x) >>)
    [] fr.at = "stat" ->
         IF ~pr.rv.flag THEN Ret(pr, [pr.rv EXCEPT !.err = NoErr, !.flag = FALSE])
         ELSE Push(pr, << Call("haveAllParts", [fr.x EXCEPT !.i = @ + 1]) >>)

\* assemble(x.logicalPath, x.staging, x.hdr, x.totalChunks, x.totalSize), x.i
\* the part it is at: the final file is created with O_EXCL after its entry
\* is made, the header and every part are written to it one by one, the
\* staging directory is removed at the end.
assembleSteps(pr, fr, self) ==
  CASE fr.at = "call" ->
         Push(pr, << Call("ensureRoot", <<>>), Fr("assemble", "rooted", fr.x) >>)
    [] fr.at = "rooted" ->
         IF pr.rv.err # NoErr THEN Pop(pr)
         ELSE Push(pr, << Call("ResolveForCreate", fr.x.logicalPath),
                          Fr("assemble", "resolved", fr.x) >>)
    [] fr.at = "resolved" ->
         IF pr.rv.err # NoErr THEN Pop(pr)
         ELSE Push(pr, << Sys("create", [path |-> pr.rv.path, excl |-> TRUE]),
                          Fr("assemble", "opened", fr.x) >>)
    [] fr.at = "opened" ->
         IF pr.rv.err # NoErr THEN Pop(pr)
         ELSE Push(pr, << Sys("write", [data |-> fr.x.hdr, close |-> FALSE]),
                          Fr("assemble", "parts", fr.x) >>)
    [] fr.at = "parts" ->
         IF fr.x.i < fr.x.totalChunks
         THEN Push(pr, << Sys("readfile", Join(fr.x.staging, PartName(fr.x.i))),
                          Fr("assemble", "read", fr.x) >>)
         ELSE Push([pr EXCEPT !.fd = NoFd],
                   (IF fr.x.totalSize > 0
                    THEN << Call("UpdateFileMeta", [logicalPath |-> fr.x.logicalPath,
                                                    size |-> fr.x.totalSize]) >>
                    ELSE <<>>) \o
                   << Sys("removeall", fr.x.staging) >>)
    [] fr.at = "read" ->
         IF pr.rv.err # NoErr THEN Pop([pr EXCEPT !.fd = NoFd])
         ELSE Push(pr, << Sys("write", [data |-> pr.rv.data, close |-> FALSE]),
                          Fr("assemble", "parts", [fr.x EXCEPT !.i = @ + 1]) >>)

\* IngestChunkStateless(x.meta, x.plain) from ensureRoot on, for a request
\* that passed its checks
IngestChunkStatelessSteps(pr, fr, self) ==
  CASE fr.at = "call" ->
         Push(pr, << Call("ensureRoot", <<>>),
                     Fr("IngestChunkStateless", "rooted", fr.x) >>)
    [] fr.at = "rooted" ->
         IF pr.rv.err # NoErr
         THEN Finish(pr, [pr.res EXCEPT !.done = TRUE, !.err = pr.rv.err])
         ELSE Bind(deriveHeaderFor(StoreKey, fr.x.meta.fileID, fr.x.meta.chunkSize),
                   LAMBDA sh :
           Bind(stagingDirFor(rootDir, fr.x.meta.fileID), LAMBDA staging :
             Push(pr, << Call("writePart",
                              [staging |-> staging, idx |-> fr.x.meta.index,
                               record |-> encryptRecord(StoreKey, sh, fr.x.meta.index,
                                                        fr.x.plain)]),
                         Fr("IngestChunkStateless", "written",
                            [meta |-> fr.x.meta, hdr |-> sh.hdr,
                             staging |-> staging]) >>)))
    [] fr.at = "written" ->
         IF pr.rv.err # NoErr
         THEN Finish(pr, [pr.res EXCEPT !.done = TRUE, !.err = pr.rv.err])
         ELSE Push(pr, << Call("haveAllParts",
                               [staging |-> fr.x.staging,
                                total |-> fr.x.meta.totalChunks, i |-> 0]),
                          Fr("IngestChunkStateless", "checked", fr.x) >>)
    [] fr.at = "checked" ->
         IF ~pr.rv.flag THEN Finish(pr, [pr.res EXCEPT !.done = TRUE, !.err = NoErr])
         ELSE Push(pr, << Call("assemble",
                               [logicalPath |-> fr.x.meta.logicalPath,
                                staging |-> fr.x.staging, hdr |-> fr.x.hdr,
                                totalChunks |-> fr.x.meta.totalChunks,
                                totalSize |-> fr.x.meta.totalSize, i |-> 0]),
                          Fr("IngestChunkStateless", "assembled", <<>>) >>)
    [] fr.at = "assembled" ->
         Finish(pr, [pr.res EXCEPT !.done = TRUE, !.err = pr.rv.err,
                                   !.assembled = pr.rv.err = NoErr])

\* UploadHandler(x.logicalPath, x.content): Encrypt writes the header and
\* then every record to the open file, the length and the ciphertext of a
\* record taken as one write.
UploadHandlerSteps(pr, fr, self) ==
  CASE fr.at = "call" ->
         Push(pr, << Call("ResolveForCreate", Clean(fr.x.logicalPath)),
                     Fr("UploadHandler", "resolved", fr.x) >>)
    [] fr.at = "resolved" ->
         Push(pr, << Sys("mkdirall", Dir(pr.rv.path)),
                     Fr("UploadHandler", "made",
                        [logicalPath |-> fr.x.logicalPath, content |-> fr.x.content,
                         dst |-> pr.rv.path]) >>)
    [] fr.at = "made" ->
         IF pr.rv.err # NoErr
         THEN Finish(pr, [pr.res EXCEPT !.done = TRUE, !.status = 500])
         ELSE Push(pr, << Sys("create", [path |-> fr.x.dst, excl |-> FALSE]),
                          Fr("UploadHandler", "opened", fr.x) >>)
    [] fr.at = "opened" ->
         IF pr.rv.err # NoErr
         THEN Finish(pr, [pr.res EXCEPT !.done = TRUE, !.status = 500])
         ELSE Bind(Encrypt(StoreKey, fr.x.content, 0, ProcRnd(self).salt,
                           ProcRnd(self).noncePrefix, <<>>).out, LAMBDA out :
           Bind(StreamFrames(out), LAMBDA recs :
             Push(pr, << Sys("write", [data |-> Take(out, headerSize),
                                       close |-> FALSE]) >> \o
                      [i \in 1..Len(recs) |->
                         Sys("write", [data |-> SubSeq(out, recs[i].off,
                                                       recs[i].off + recs[i].len - 1),
                                       close |-> FALSE])] \o
                      << Fr("UploadHandler", "encrypted", fr.x) >>)))
    [] fr.at = "encrypted" ->
         Push([pr EXCEPT !.fd = NoFd],
              << Call("UpdateFileMeta", [logicalPath |-> Clean(fr.x.logicalPath),
                                         size |-> Len(fr.x.content)]),
                 Fr("UploadHandler", "done", <<>>) >>)
    [] fr.at = "done" -> Finish(pr, [pr.res EXCEPT !.done = TRUE, !.status = 200])

\* DownloadHandler(x): the file is read to its end at once; when Decrypt
\* fails before any plaintext was sent, the raw file is sent.
DownloadHandlerSteps(pr, fr, self) ==
  CASE fr.at = "call" ->
         Push(pr, << Call("ResolveForRead", Clean(fr.x)),
                     Fr("DownloadHandler", "resolved", <<>>) >>)
    [] fr.at = "resolved" ->
         IF pr.rv.err # NoErr
         THEN Finish(pr, [pr.res EXCEPT !.done = TRUE, !.status = 404])
         ELSE Push(pr, << Sys("readfile", pr.rv.path),
                          Fr("DownloadHandler", "opened", <<>>) >>)
    [] fr.at = "opened" ->
         IF pr.rv.err # NoErr
         THEN Finish(pr, [pr.res EXCEPT !.done = TRUE, !.status = 404])
         ELSE Bind(Decrypt(StoreKey, pr.rv.data), LAMBDA d :
           Finish(pr, [pr.res EXCEPT !.done = TRUE, !.status = 200, !.err = d.err,
                                     !.body = IF d.err # NoErr /\ d.out = <<>>
                                              THEN pr.rv.data ELSE d.out]))

\* The goroutine runs from the frame it is at to its next system call, or to
\* its end.  A frame of fn "return" ends a request that called a function of
\* manifest.go on its own.
RECURSIVE Settle(_, _)
Settle(pr, self) ==
  IF pr.k = <<>> THEN [pr EXCEPT !.res.done = TRUE]
  ELSE Bind(Head(pr.k), LAMBDA fr :
    IF fr.fn = "sys" THEN pr
    ELSE Settle(
      CASE fr.fn = "saveManifest" -> saveManifestSteps(pr, fr, self)
        [] fr.fn = "ensureRoot" -> ensureRootSteps(pr, fr, self)
        [] fr.fn = "resolveParentDir" -> resolveParentDirSteps(pr, fr, self)
        [] fr.fn = "ResolveForCreate" -> ResolveForCreateSteps(pr, fr, self)
        [] fr.fn = "ResolveForRead" -> ResolveForReadSteps(pr, fr, self)
        [] fr.fn = "UpdateFileMeta" -> UpdateFileMetaSteps(pr, fr, self)
        [] fr.fn = "writePart" -> writePartSteps(pr, fr, self)
        [] fr.fn = "haveAllParts" -> haveAllPartsSteps(pr, fr, self)
        [] fr.fn = "assemble" -> assembleSteps(pr, fr, self)
        [] fr.fn = "IngestChunkStateless" -> IngestChunkStatelessSteps(pr, fr, self)
        [] fr.fn = "UploadHandler" -> UploadHandlerSteps(pr, fr, self)
        [] fr.fn = "DownloadHandler" -> DownloadHandlerSteps(pr, fr, self)
        [] fr.fn = "return" ->
             Finish(pr, [pr.res EXCEPT !.done = TRUE, !.err = pr.rv.err]),
      self))

(***************************************************************************)
(* Two requests at the same time.  Each goroutine runs one request from    *)
(* its first system call to its return; a step of the machine is one       *)
(* system call of one goroutine, in any order the scheduler may choose.    *)
(***************************************************************************)
\* the logical paths the racing requests name
RacePaths == {<<"x">>, <<"d", "x">>}
\* put_chunk requests for chunk 0 of an upload to "x", of one chunk or of two
RaceMetas ==
  {[logicalPath |-> <<"x">>, fileID |-> <<"f", "1">>, chunkSize |-> UploadChunkSize,
    index |-> 0, totalChunks |-> t, totalSize |-> 0] : t \in {1, 2}}

\* a request: put_chunk(meta, body), put_whole(path, content), get(path), or
\* a function of manifest.go called on its own with path (and size)
Job(op, meta, body, path, content, size) ==
  [op |-> op, meta |-> meta, body |-> body, path |-> path, content |-> content,
   size |-> size]
PutChunkJobs ==
  {Job("put_chunk", m, <<Lit(7)>>, m.logicalPath, <<>>, 0) : m \in RaceMetas}
PutWholeJobs == {Job("put_whole", NoMeta, <<>>, p, <<Lit(9)>>, 0) : p \in RacePaths}
Jobs ==
  PutChunkJobs \cup PutWholeJobs \cup
  {Job("get", NoMeta, <<>>, p, <<>>, 0) : p \in RacePaths} \cup
  {Job(op, NoMeta, <<>>, <<"d", "x">>, <<>>, 5) :
     op \in {"resolve_for_create", "resolve_for_read", "update_meta"}}
\* the request of the first goroutine: one that writes
FirstJobs == PutChunkJobs \cup {j \in PutWholeJobs : j.path = <<"d", "x">>}

\* the goroutine of a request, at its first system call
Start(job, self) ==
  Settle([job |-> job, rv |-> NoRv, fd |-> NoFd, draws |-> 0, res |-> NoRes,
          k |-> CASE job.op = "put_chunk" ->
                       << Call("IngestChunkStateless",
                               [meta |-> job.meta, plain |-> job.body]) >>
                  [] job.op = "put_whole" ->
                       << Call("UploadHandler",
                               [logicalPath |-> job.path, content |-> job.content]) >>
                  [] job.op = "get" -> << Call("DownloadHandler", job.path) >>
                  [] job.op = "resolve_for_create" ->
                       << Call("ResolveForCreate", job.path), Fr("return", "", <<>>) >>
                  [] job.op = "resolve_for_read" ->
                       << Call("ResolveForRead", job.path), Fr("return", "", <<>>) >>
                  [] job.op = "update_meta" ->
                       << Call("UpdateFileMeta",
                               [logicalPath |-> job.path, size |-> job.size]),
                          Fr("return", "", <<>>) >>],
         self)

\* the disk the race starts on: empty, or holding d/x from an earlier upload
RaceDisks ==
  {EmptyDisk, UploadHandler(EmptyDisk, StoreKey, <<"d", "x">>, <<Lit(8)>>, AnyRnd, <<>>).fs}

RaceInit ==
  /\ fs \in RaceDisks
  /\ \E ja \in FirstJobs, jb \in Jobs :
       procs = [self \in Procs |-> Start(IF self = "a" THEN ja ELSE jb, self)]
  /\ ret = NoRet
  /\ latest = [p \in CleanPaths |-> NoWrite]
  /\ up = NoUpload
  /\ sent = <<>>
  /\ hist = <<>>
  /\ cpc = "idle"
  /\ cIn = [masterKey |-> StoreKey, plain |-> <<>>, chunkSize |-> 0]
  /\ cEnc = [err |-> NoErr, index |-> 0, frames |-> <<>>]
  /\ cStream = <<>>
  /\ cTamper = NoTamper
  /\ cDec = NoDec

\* The goroutine self makes the system call it is at and runs on to its
\* next one.
Run(self) ==
  /\ procs[self].k # <<>>
  /\ Bind(procs[self], LAMBDA pr :
       Bind(SysCall(fs, pr, Head(pr.k)), LAMBDA r :
         /\ fs' = r.fs
         /\ procs' =
              [q \in Procs |->
                 IF q = self
                 THEN Settle([pr EXCEPT !.k = Tail(@), !.rv = r.rv, !.fd = r.fd], self)
                 ELSE [procs[q] EXCEPT
                         !.fd = FdAfter(@, Head(pr.k), r.rv.err = NoErr)]]
         /\ UNCHANGED <<ret, latest, up, sent, hist>>
         /\ UNCHANGED cvars))

\* one step of a request of each kind
RacePutChunk == \E self \in Procs : procs[self].job.op = "put_chunk" /\ Run(self)
RacePutWhole == \E self \in Procs : procs[self].job.op = "put_whole" /\ Run(self)
RaceGet == \E self \in Procs : procs[self].job.op = "get" /\ Run(self)
RaceResolveForCreate ==
  \E self \in Procs : procs[self].job.op = "resolve_for_create" /\ Run(self)
RaceResolveForRead ==
  \E self \in Procs : procs[self].job.op = "resolve_for_read" /\ Run(self)
RaceUpdateMeta == \E self \in Procs : procs[self].job.op = "update_meta" /\ Run(self)

RaceNext ==
  \/ RacePutChunk
  \/ RacePutWhole
  \/ RaceGet
  \/ RaceResolveForCreate
  \/ RaceResolveForRead
  \/ RaceUpdateMeta

SpecRace == RaceInit /\ [][RaceNext]_vars

(***************************************************************************)
(* Properties of requests that run at the same time.                       *)
(***************************************************************************)
ManifestFiles(f) == {p \in DOMAIN f : IsManifest(p) /\ IsFile(f, p)}
Running(op) == {self \in DOMAIN procs : procs[self].job.op = op}
Returned(self) == procs[self].res.done

\* C11: a manifest is never observable half-written: whatever is at
\* <dir>/.manifest is the complete ciphertext of one save, so it decrypts to
\* the manifest that save wrote.
C11_ManifestNeverTorn ==
  \A p \in ManifestFiles(fs) : loadManifest(fs, StoreKey, Parent(p)).err = NoErr

\* the final files of the directory dir
BinFiles(f, dir) ==
  {p \in DOMAIN f : Parent(p) = dir /\ IsFile(f, p) /\ p[Len(p)][Len(p[Len(p)])] = ".bin"}

\* C12: of two put_chunk calls that assemble the same logical path at the
\* same time, at most one returns assembled and at most one final file is
\* created.
C12_OneAssembler ==
  \A self \in Running("put_chunk"), other \in Running("put_chunk") :
    (self # other /\ procs[self].job.path = procs[other].job.path)
      => /\ ~(procs[self].res.assembled /\ procs[other].res.assembled)
         /\ Cardinality(BinFiles(fs, rootDir)) <= 1

\* what the stored record of a one-chunk upload must be, in its part file or
\* in the final file
RecordOf(job) ==
  encryptRecord(StoreKey, deriveHeaderFor(StoreKey, job.meta.fileID, job.meta.chunkSize),
                job.meta.index, job.body)
PartOf(job) == Join(stagingDirFor(rootDir, job.meta.fileID), PartName(job.meta.index))
RecordKept(f, job) ==
  /\ PartOf(job) \in DOMAIN f => f[PartOf(job)].data = RecordOf(job)
  /\ \A p \in BinFiles(f, rootDir) :
       job.meta.totalChunks = 1 =>
         f[p].data = deriveHeaderFor(StoreKey, job.meta.fileID, job.meta.chunkSize).hdr
                       \o RecordOf(job)

\* C13: of two put_chunk calls for the same file id and index at the same
\* time, exactly one creates and writes the part, and once both have
\* returned the stored record is the complete record of that call.
C13_OnePartWriter ==
  \A self \in Running("put_chunk"), other \in Running("put_chunk") :
    (/\ self # other
     /\ procs[self].job.meta = procs[other].job.meta
     /\ Returned(self) /\ Returned(other))
      => /\ procs[self].res.wrote # procs[other].res.wrote
         /\ RecordKept(fs, procs[self].job)

\* C15: a get that runs while the file is assembled never answers
\* successfully with anything but the complete plaintext.
C15_GetNeverPartial ==
  \A g \in Running("get"), c \in Running("put_chunk") :
    (/\ procs[c].job.meta.totalChunks = 1
     /\ procs[c].job.path = procs[g].job.path
     /\ Returned(g) /\ procs[g].res.status = 200 /\ procs[g].res.err = NoErr)
      => procs[g].res.body = procs[c].job.body

\* the manifests on the disk that decrypt, the ones being written included
ManifestsOn(f) ==
  {loadManifest(f, StoreKey, Parent(p)).m : p \in ManifestFiles(f)} \cup
  {Bind(decryptBytes(StoreKey, f[p].data), LAMBDA d :
     IF d.err # NoErr THEN EmptyManifest ELSE Unmarshal(d.out).m) :
     p \in {q \in DOMAIN f : q[Len(q)] = manifestTmpName /\ IsFile(f, q)}}
NoDuplicates(m) ==
  \A i, j \in 1..Len(m.entries) :
    (m.entries[i].name = m.entries[j].name /\ m.entries[i].type = m.entries[j].type)
      => i = j

\* C16: under any interleaving of resolve_for_create, resolve_for_read,
\* update_meta, put_whole and put_chunk, every persisted manifest has at most
\* one entry per name and type.
C16_OneEntryPerName == \A m \in ManifestsOn(fs) : NoDuplicates(m)

\* two requests that created the same name at the same time have returned,
\* and the manifest of the directory holds the name
C16_Witness ==
  /\ \A self \in Procs : self \in DOMAIN procs /\ Returned(self)
  /\ procs["a"].job.op = "put_whole" /\ procs["b"].job.op = "resolve_for_create"
  /\ procs["a"].job.path = <<"d", "x">> /\ procs["b"].job.path = <<"d", "x">>
  /\ procs["a"].draws > 0 /\ procs["b"].draws > 0
  /\ \E m \in ManifestsOn(fs) : \E i \in 1..Len(m.entries) : m.entries[i].name = "x"

\* C17: in every state, between the steps of an operation too, every entry
\* of a persisted manifest names a file <enc>.bin or a directory <enc> that
\* exists.
C17_EntriesExist ==
  \A p \in ManifestFiles(fs) :
    Bind(loadManifest(fs, StoreKey, Parent(p)), LAMBDA l :
      l.err = NoErr =>
        \A i \in 1..Len(l.m.entries) :
          IF l.m.entries[i].type = "file"
          THEN IsFile(fs, Join(Parent(p), BinName(l.m.entries[i].enc)))
          ELSE IsDir(fs, Join(Parent(p), <<l.m.entries[i].enc>>)))


(***************************************************************************)
(* The path resolver on its own: resolve_for_create, resolve_for_read and  *)
(* update_meta, one call at a time, on a store that starts empty.  hist    *)
(* holds the calls made so far: what each was given, the disk it found,    *)
(* the error and the path it returned.  The clock advances with every      *)
(* call.                                                                   *)
(***************************************************************************)
\* the logical paths the calls name: "x", "d/x" and "d/e/x"
ManifestPaths == {<<"x">>, <<"d", "x">>, <<"d", "e", "x">>}
\* the size update_meta is given
MetaSizes == {5}

\* what the n-th call draws: the clock reads n
RndAt(n) == [AnyRnd EXCEPT !.now = n]

ManifestCall(op, path, size, before, err, out) ==
  [op |-> op, path |-> path, size |-> size, before |-> before, err |-> err, out |-> out]

ManifestInit == StoreIdle /\ CodecIdle

ManifestCreate ==
  /\ Len(hist) < MaxCalls
  /\ \E p \in ManifestPaths :
       Bind(ResolveForCreate(fs, StoreKey, p, RndAt(Len(hist) + 1)), LAMBDA r :
         /\ fs' = r.fs
         /\ hist' = Append(hist, ManifestCall("resolve_for_create", p, 0, fs, r.err,
                                              r.path)))
  /\ UNCHANGED <<ret, latest, up, sent>>
  /\ UNCHANGED <<cvars, procs>>

ManifestRead ==
  /\ Len(hist) < MaxCalls
  /\ \E p \in ManifestPaths :
       Bind(ResolveForRead(fs, StoreKey, p, RndAt(Len(hist) + 1)), LAMBDA r :
         /\ fs' = r.fs
         /\ hist' = Append(hist, ManifestCall("resolve_for_read", p, 0, fs, r.err,
                                              r.path)))
  /\ UNCHANGED <<ret, latest, up, sent>>
  /\ UNCHANGED <<cvars, procs>>

ManifestUpdate ==
  /\ Len(hist) < MaxCalls
  /\ \E p \in ManifestPaths, size \in MetaSizes :
       Bind(UpdateFileMeta(fs, StoreKey, p, size, RndAt(Len(hist) + 1)), LAMBDA r :
         /\ fs' = r.fs
         /\ hist' = Append(hist, ManifestCall("update_meta", p, size, fs, r.err, <<>>)))
  /\ UNCHANGED <<ret, latest, up, sent>>
  /\ UNCHANGED <<cvars, procs>>

ManifestNext == ManifestCreate \/ ManifestRead \/ ManifestUpdate

SpecManifest == ManifestInit /\ [][ManifestNext]_vars

(***************************************************************************)
(* Claims about the path resolver (checked under SpecManifest).            *)
(***************************************************************************)
\* the last call made, when it is a call of op
LastIs(op) == Len(hist) > 0 /\ hist[Len(hist)].op = op
Last == hist[Len(hist)]

\* The logical tree of disk f, read from its manifests: the on-disk directory
\* of the logical directory names (a list of segments) below the on-disk
\* directory cur, <<>> when a segment has no dir entry.
RECURSIVE DirOf(_, _, _)
DirOf(f, cur, names) ==
  IF names = <<>> THEN cur
  ELSE Bind(loadManifest(f, StoreKey, cur).m, LAMBDA m :
    Bind({i \in 1..Len(m.entries) :
            m.entries[i].type = "dir" /\ m.entries[i].name = Head(names)}, LAMBDA hits :
      IF hits = {} THEN <<>>
      ELSE DirOf(f, Append(cur, <<m.entries[CHOOSE i \in hits : \A j \in hits : i <= j].enc>>),
                 Tail(names))))

\* the file entries of name in the manifest of the on-disk directory dir
FileEntries(f, dir, name) ==
  Bind(loadManifest(f, StoreKey, dir).m, LAMBDA m :
    {m.entries[i] : i \in {k \in 1..Len(m.entries) :
                             m.entries[k].type = "file" /\ m.entries[k].name = name}})

\* the directories of disk f, and the entries of each of its manifests
Dirs(f) == {p \in DOMAIN f : f[p].kind = "dir"}
Entries(f) ==
  [p \in {q \in DOMAIN f : IsManifest(q) /\ IsFile(f, q)} |->
     loadManifest(f, StoreKey, Parent(p)).m.entries]
\* the slugs in use on disk f
SlugsOn(f) == UsedSlugs(f) \cap {SlugNames[k] : k \in 1..Len(SlugNames)}

\* what resolve_for_read has to answer for the segments parts on disk f
ReadAnswer(f, parts) ==
  Bind(SubSeq(parts, 1, Len(parts) - 1), LAMBDA dirs :
    Bind({k \in 1..Len(dirs) : DirOf(f, rootDir, SubSeq(dirs, 1, k)) = <<>>},
         LAMBDA missing :
      IF missing # {}
      THEN [err |-> DirNotFound(dirs[CHOOSE k \in missing : \A j \in missing : k <= j]),
            out |-> <<>>]
      ELSE Bind(FileEntries(f, DirOf(f, rootDir, dirs), parts[Len(parts)]), LAMBDA es :
        IF es = {} THEN [err |-> Err("FileNotFound"), out |-> <<>>]
        ELSE [err |-> NoErr,
              out |-> {Append(DirOf(f, rootDir, dirs), BinName(e.enc)) : e \in es}])))

\* resolve_for_read answers as the claim says
ReadAnswered ==
  LastIs("resolve_for_read") =>
    Bind(ReadAnswer(Last.before, PathParts(Last.path)), LAMBDA a :
      /\ Last.err = a.err
      /\ IF a.err = NoErr THEN Last.out \in a.out ELSE Last.out = <<>>)

\* C21, as stated: resolve_for_read fails with DirNotFound naming the first
\* segment without a dir entry, with FileNotFound when the name has no file
\* entry, and returns <parent>/<enc>.bin otherwise; it never creates a
\* directory, draws a slug or adds an entry to a manifest.
C21_ReadOnly ==
  /\ ReadAnswered
  /\ LastIs("resolve_for_read") =>
       /\ Dirs(fs) = Dirs(Last.before)
       /\ SlugsOn(fs) = SlugsOn(Last.before)
       /\ \A p \in DOMAIN Entries(Last.before) : Entries(fs)[p] = Entries(Last.before)[p]
       /\ \A p \in DOMAIN Entries(fs) \ DOMAIN Entries(Last.before) : Entries(fs)[p] = <<>>

\* C21, amended: the same, except that the storage root is created when it is
\* missing; no other directory is.
C21_ReadOnlyBelowRoot ==
  /\ ReadAnswered
  /\ LastIs("resolve_for_read") =>
       /\ Dirs(fs) \ {rootDir} = Dirs(Last.before) \ {rootDir}
       /\ SlugsOn(fs) = SlugsOn(Last.before)
       /\ \A p \in DOMAIN Entries(Last.before) : Entries(fs)[p] = Entries(Last.before)[p]
       /\ \A p \in DOMAIN Entries(fs) \ DOMAIN Entries(Last.before) : Entries(fs)[p] = <<>>

\* resolve_for_read of d/e/x has failed on a store where d is a directory and
\* e is not
C21_Witness ==
  /\ LastIs("resolve_for_read")
  /\ Last.path = <<"d", "e", "x">>
  /\ Last.err = DirNotFound("e")
  /\ DirOf(Last.before, rootDir, <<"d">>) # <<>>


\* the entries of the manifest of the on-disk directory dir on disk f
EntriesOf(f, dir) == loadManifest(f, StoreKey, dir).m.entries
\* the directory segments and the file name of a call's path
DirsOfPath(path) == SubSeq(PathParts(path), 1, Len(PathParts(path)) - 1)
NameOfPath(path) == PathParts(path)[Len(PathParts(path))]

\* resolve_for_create when the name has a file entry: the path of that entry,
\* and no manifest's entries change
CreateReuses(c, after) ==
  Bind(DirOf(c.before, rootDir, DirsOfPath(c.path)), LAMBDA parent :
    (parent # <<>> /\ FileEntries(c.before, parent, NameOfPath(c.path)) # {}) =>
      /\ c.err = NoErr
      /\ c.out \in {Append(parent, BinName(e.enc)) :
                      e \in FileEntries(c.before, parent, NameOfPath(c.path))}
      /\ \A p \in DOMAIN Entries(c.before) : Entries(after)[p] = Entries(c.before)[p]
      /\ DOMAIN Entries(after) \ {manifestPath(rootDir)} =
           DOMAIN Entries(c.before) \ {manifestPath(rootDir)}
      /\ Dirs(after) \ {rootDir} = Dirs(c.before) \ {rootDir})

\* resolve_for_create when the name has no file entry: one file entry more
\* in the parent's manifest, of a slug not in use before and size 0, and the
\* path of that slug
CreateAppends(c, after) ==
  Bind(DirOf(c.before, rootDir, DirsOfPath(c.path)), LAMBDA was :
    (was = <<>> \/ FileEntries(c.before, was, NameOfPath(c.path)) = {}) =>
      Bind(DirOf(after, rootDir, DirsOfPath(c.path)), LAMBDA parent :
        /\ c.err = NoErr
        /\ parent # <<>>
        /\ Bind(EntriesOf(after, parent), LAMBDA es :
             /\ es # <<>>
             /\ SubSeq(es, 1, Len(es) - 1) =
                  (IF was = <<>> THEN <<>> ELSE EntriesOf(c.before, was))
             /\ es[Len(es)].name = NameOfPath(c.path)
             /\ es[Len(es)].type = "file"
             /\ es[Len(es)].size = 0
             /\ es[Len(es)].enc \notin UsedSlugs(c.before)
             /\ c.out = Append(parent, BinName(es[Len(es)].enc)))))

\* directories that exist are used again
CreateKeepsDirs(c, after) ==
  \A k \in 1..Len(DirsOfPath(c.path)) :
    Bind(DirOf(c.before, rootDir, SubSeq(DirsOfPath(c.path), 1, k)), LAMBDA d :
      d # <<>> =>
        /\ DirOf(after, rootDir, SubSeq(DirsOfPath(c.path), 1, k)) = d
        /\ SubSeq(EntriesOf(after, Parent(d)), 1, Len(EntriesOf(c.before, Parent(d)))) =
             EntriesOf(c.before, Parent(d)))

\* resolves of one path that succeeded gave one on-disk path
SamePathSameFile ==
  \A i, j \in 1..Len(hist) :
    (/\ hist[i].op \in {"resolve_for_create", "resolve_for_read"}
     /\ hist[j].op \in {"resolve_for_create", "resolve_for_read"}
     /\ Clean(hist[i].path) = Clean(hist[j].path)
     /\ hist[i].err = NoErr /\ hist[j].err = NoErr)
    => hist[i].out = hist[j].out

\* C22: resolve_for_create returns the path of the name's file entry and
\* changes no entry when the entry exists; otherwise it appends one file
\* entry of a fresh slug and size 0 and returns its path; directories that
\* exist are reused; so sequential resolves of one path return one on-disk
\* path.
C22_SlugStable ==
  /\ LastIs("resolve_for_create") =>
       /\ CreateReuses(Last, fs)
       /\ CreateAppends(Last, fs)
       /\ CreateKeepsDirs(Last, fs)
  /\ SamePathSameFile

\* d/x was created, its size recorded, and d/x is resolved for create again:
\* the entry keeps its slug and its size
C22_Witness ==
  /\ Len(hist) = 3
  /\ hist[1].op = "resolve_for_create" /\ hist[1].path = <<"d", "x">>
  /\ hist[2].op = "update_meta" /\ hist[2].path = <<"d", "x">> /\ hist[2].err = NoErr
  /\ hist[3].op = "resolve_for_create" /\ hist[3].path = <<"d", "x">>
  /\ hist[3].out = hist[1].out
  /\ \E e \in FileEntries(fs, DirOf(fs, rootDir, <<"d">>), "x") : e.size \in MetaSizes


\* the manifests of disk f are those of disk g, the root's apart, and every
\* manifest of g has on f the entries it had
SameEntries(f, g) ==
  /\ DOMAIN Entries(f) \ {manifestPath(rootDir)} = DOMAIN Entries(g) \ {manifestPath(rootDir)}
  /\ \A p \in DOMAIN Entries(g) : Entries(f)[p] = Entries(g)[p]
  /\ \A p \in DOMAIN Entries(f) \ DOMAIN Entries(g) : Entries(f)[p] = <<>>

\* what update_meta does to the manifests: c is the call, after the disk it
\* left, now the clock it read
MetaUpdated(c, after, now) ==
  Bind(DirOf(c.before, rootDir, DirsOfPath(c.path)), LAMBDA parent :
    IF parent # <<>> /\ FileEntries(c.before, parent, NameOfPath(c.path)) # {}
    THEN Bind(EntriesOf(c.before, parent), LAMBDA was :
      Bind(EntriesOf(after, parent), LAMBDA es :
        Bind(findEntry([entries |-> was], NameOfPath(c.path), "file"), LAMBDA e :
          /\ c.err = NoErr
          /\ Len(es) = Len(was)
          /\ \A i \in 1..Len(was) : i # e => es[i] = was[i]
          /\ es[e] = [was[e] EXCEPT !.size = c.size, !.modTime = now]
          /\ \A p \in DOMAIN Entries(c.before) \ {manifestPath(parent)} :
               Entries(after)[p] = Entries(c.before)[p]
          /\ DOMAIN Entries(after) = DOMAIN Entries(c.before))))
    ELSE c.err # NoErr /\ SameEntries(after, c.before))

\* C23, as stated: update_meta changes the size and mod_time of the file
\* entry of p and nothing else in any manifest, and creates no directory;
\* when the entry or a directory of p is missing it fails and no manifest's
\* entries change.
C23_MetaOnly ==
  LastIs("update_meta") =>
    /\ MetaUpdated(Last, fs, Len(hist))
    /\ Dirs(fs) = Dirs(Last.before)

\* C23, amended: the same, except that the storage root is created when it is
\* missing; no other directory is.
C23_MetaOnlyBelowRoot ==
  LastIs("update_meta") =>
    /\ MetaUpdated(Last, fs, Len(hist))
    /\ Dirs(fs) \ {rootDir} = Dirs(Last.before) \ {rootDir}

\* update_meta of d/x has succeeded in a directory that holds the
\* directory e as well, some calls after d/x was created
C23_Witness ==
  /\ LastIs("update_meta")
  /\ Last.path = <<"d", "x">>
  /\ Last.err = NoErr
  /\ Len(EntriesOf(fs, DirOf(fs, rootDir, <<"d">>))) = 2
  /\ \E e \in FileEntries(fs, DirOf(fs, rootDir, <<"d">>), "x") :
       e.size \in MetaSizes /\ e.created < e.modTime


(***************************************************************************)
(* The path resolver on a store with a fault.  The store holds the file    *)
(* d/x.  Either the manifest of a directory has lost its last byte, so     *)
(* that loadManifest fails on it, or the name .manifest.tmp in a directory *)
(* is taken by a directory, so that saveManifest fails there.              *)
(***************************************************************************)
\* the store after resolve_for_create and update_meta of d/x
HealthyDisk ==
  UpdateFileMeta(ResolveForCreate(EmptyDisk, StoreKey, <<"d", "x">>, AnyRnd).fs,
                 StoreKey, <<"d", "x">>, 5, AnyRnd).fs
\* the on-disk directories a fault is put in: the root and d
FaultDirs == {rootDir, DirOf(HealthyDisk, rootDir, <<"d">>)}
FaultKinds == {"cut", "blocked"}

Damage(f, kind, dir) ==
  IF kind = "cut"
  THEN [f EXCEPT ![manifestPath(dir)] = FileNode(Take(@.data, Len(@.data) - 1))]
  ELSE (Append(dir, manifestTmpName) :> DirNode) @@ f

FaultInit ==
  /\ \E kind \in FaultKinds, dir \in FaultDirs :
       fs = Damage(HealthyDisk, kind, dir)
  /\ ret = NoRet
  /\ latest = [p \in CleanPaths |-> NoWrite]
  /\ up = NoUpload
  /\ sent = <<>>
  /\ hist = <<>>
  /\ CodecIdle

SpecFault == FaultInit /\ [][ManifestNext]_vars

(***************************************************************************)
(* Claims about the path resolver on a faulty store (checked under         *)
(* SpecFault).                                                             *)
(***************************************************************************)
Unreadable(f, dir) == loadManifest(f, StoreKey, dir).err # NoErr
Blocked(f, dir) == IsDir(f, Append(dir, manifestTmpName))

\* the on-disk directories whose manifests the call c loads: the root and
\* the directories of its path, as far as manifests that can be read lead
Loaded(c) ==
  {rootDir} \cup
  {DirOf(c.before, rootDir, SubSeq(DirsOfPath(c.path), 1, k)) :
     k \in {j \in 1..Len(DirsOfPath(c.path)) :
              /\ DirOf(c.before, rootDir, SubSeq(DirsOfPath(c.path), 1, j)) # <<>>
              /\ \A i \in 0..(j - 1) :
                   ~Unreadable(c.before,
                               DirOf(c.before, rootDir, SubSeq(DirsOfPath(c.path), 1, i)))}}

\* the on-disk directories whose manifests the call c has to save: the root
\* (ensureRoot), the directory in which a walk in create mode misses a
\* segment, and the parent of the file when its entry is made or updated
Saved(c) ==
  {rootDir} \cup
  {d \in Loaded(c) \ {<<>>} :
     \/ /\ c.op = "resolve_for_create"
        /\ \E k \in 1..Len(DirsOfPath(c.path)) :
             /\ d = DirOf(c.before, rootDir, SubSeq(DirsOfPath(c.path), 1, k - 1))
             /\ DirOf(c.before, rootDir, SubSeq(DirsOfPath(c.path), 1, k)) = <<>>
     \/ /\ c.op = "resolve_for_create"
        /\ d = DirOf(c.before, rootDir, DirsOfPath(c.path))
        /\ FileEntries(c.before, d, NameOfPath(c.path)) = {}
     \/ /\ c.op = "update_meta"
        /\ d = DirOf(c.before, rootDir, DirsOfPath(c.path))
        /\ FileEntries(c.before, d, NameOfPath(c.path)) # {}}

\* the call c meets a manifest it cannot load or cannot save
MeetsFault(c) ==
  \/ \E d \in Loaded(c) : Unreadable(c.before, d)
  \/ \E d \in Saved(c) : Blocked(c.before, d)

\* an unreadable manifest is left as it is
UnreadableKept(c, after) ==
  \A d \in Dirs(c.before) :
    Unreadable(c.before, d) =>
      /\ manifestPath(d) \in DOMAIN after
      /\ after[manifestPath(d)] = c.before[manifestPath(d)]

\* C24: a call of resolve_for_create, resolve_for_read or update_meta that
\* meets a manifest it cannot load, or cannot save, returns an error (it
\* returns no path and does not crash), and a manifest that cannot be read
\* is never replaced by a newly written one.
C24_ErrorsSurface ==
  Len(hist) > 0 =>
    /\ MeetsFault(Last) =>
         Last.err # NoErr /\ Last.err # Err("panic") /\ Last.out = <<>>
    /\ UnreadableKept(Last, fs)

\* the part of C24 that the code keeps: an unreadable manifest stays
C24_UnreadableStays == Len(hist) > 0 => UnreadableKept(Last, fs)
\* the calls that lose an error: a crash, and a path returned
C24_Crash == ~(Len(hist) > 0 /\ MeetsFault(Last) /\ Last.err = Err("panic"))
C24_PathReturned == ~(Len(hist) > 0 /\ MeetsFault(Last) /\ Last.err = NoErr)


(***************************************************************************)
(* put_chunk calls of uploads whose file ids safeID and filepath.Join turn *)
(* into other names: "..", ".", "a/b" and "a_b".  hist holds the calls     *)
(* made so far: what each was given, the disk it found and what it         *)
(* returned.                                                               *)
(***************************************************************************)
StagingIDs == {<<".", ".">>, <<".">>, <<"a", "/", "b">>, <<"a", "_", "b">>}
StagingMetas ==
  {m \in [logicalPath : {<<"d", "x">>}, fileID : StagingIDs, chunkSize : {2},
          index : {0, 1}, totalChunks : {1, 2}, totalSize : {0}] :
     m.index < m.totalChunks}

StagingInit == StoreIdle /\ CodecIdle

StagingCall ==
  /\ Len(hist) < MaxCalls
  /\ \E meta \in StagingMetas :
       Bind(IngestChunkStateless(fs, StoreKey, meta, <<Lit(7)>>, AnyRnd), LAMBDA r :
           /\ fs' = r.fs
           /\ ret' = [NoRet EXCEPT !.op = "put_chunk", !.err = r.err,
                                   !.assembled = r.assembled, !.final = r.path]
           /\ hist' = Append(hist, [meta |-> meta, body |-> <<Lit(7)>>,
                                    ok |-> r.err = NoErr, assembled |-> r.assembled,
                                    wrote |-> r.wrote, before |-> fs]))
  /\ UNCHANGED <<latest, up, sent>>
  /\ UNCHANGED <<cvars, procs>>

StagingNext == StagingCall

SpecStaging == StagingInit /\ [][StagingNext]_vars

(***************************************************************************)
(* Claims about the staging directories (checked under SpecStaging).       *)
(***************************************************************************)
uploadsDir == Append(rootDir, <<"_uploads">>)
\* an on-disk directory strictly inside _uploads
InsideUploads(d) == IsUnder(uploadsDir, d) /\ d # uploadsDir
IsPart(p) == p[Len(p)] \in {PartName(i) : i \in 0..MaxChunks}

\* the part files the call c wrote, and what it removed, after being the
\* disk it left
PartsWritten(c, after) ==
  {p \in DOMAIN after : IsPart(p) /\ (p \in DOMAIN c.before => after[p] # c.before[p])}
Removed(c, after) == DOMAIN c.before \ DOMAIN after

\* C29: every part file put_chunk writes lies in a directory strictly
\* inside _uploads, and what put_chunk removes lies in one staging
\* directory, a directory directly below _uploads: nothing is written to or
\* removed from the storage root, a slug directory, a manifest, a .bin file
\* or the staging directory of another upload.
C29_StagingConfined ==
  Len(hist) > 0 =>
    /\ \A p \in PartsWritten(Last, fs) : InsideUploads(Parent(p))
    /\ \E d \in {Append(uploadsDir, safeID(id)) : id \in StagingIDs} :
         /\ \A p \in Removed(Last, fs) : IsUnder(d, p)
         /\ \A k \in 1..(Len(hist) - 1) :
              (hist[k].meta.fileID # Last.meta.fileID /\ hist[k].wrote) =>
                \A p \in Removed(Last, fs) :
                  ~IsUnder(Append(uploadsDir, safeID(hist[k].meta.fileID)), p)

\* C30: uploads of distinct file ids share no staging directory: a call
\* that assembles has found, for every index, a part that a call of its own
\* file id wrote.
C30_UploadsIsolated ==
  (Len(hist) > 0 /\ Last.assembled) =>
    \A i \in 0..(Last.meta.totalChunks - 1) :
      \E k \in 1..Len(hist) :
        /\ hist[k].meta.fileID = Last.meta.fileID
        /\ hist[k].meta.index = i
        /\ hist[k].wrote

\* the names under the storage root and outside _uploads
StoreNames(f) ==
  {p \in DOMAIN f : IsUnder(rootDir, p) /\ p # rootDir /\ ~IsUnder(uploadsDir, p)}
SlugSet == {SlugNames[k] : k \in 1..Len(SlugNames)}
\* the segments of the logical paths in use
LogicalSegments ==
  UNION {{p[i] : i \in 1..Len(p)} : p \in LogicalPaths \cup ManifestPaths \cup {<<"q", "y">>}}

\* every name in the store is .manifest, a slug directory or <slug>.bin,
\* and none is a segment of a logical path
NamesHidden(f) ==
  \A p \in StoreNames(f) :
    /\ \/ p[Len(p)] = manifestFileName /\ IsFile(f, p)
       \/ \E s \in SlugSet : p[Len(p)] = <<s>> /\ IsDir(f, p)
       \/ \E s \in SlugSet : p[Len(p)] = BinName(s) /\ IsFile(f, p)
    /\ \A i \in 1..Len(p[Len(p)]) : p[Len(p)][i] \notin LogicalSegments

\* the on-disk tree of a disk: its names and their kinds
Shape(f) == [p \in DOMAIN f |-> f[p].kind]
\* the disk the calls 1..n of hist leave when every logical path is
\* logicalPath instead
RECURSIVE Replay(_, _)
Replay(n, logicalPath) ==
  IF n = 0 THEN EmptyDisk
  ELSE IngestChunkStateless(Replay(n - 1, logicalPath), StoreKey,
                            [hist[n].meta EXCEPT !.logicalPath = logicalPath],
                            hist[n].body, AnyRnd).fs

\* C25: after any sequence of put_chunk calls every name under filestorage
\* and outside _uploads is .manifest, a slug directory or <slug>.bin, no
\* segment of a logical path is a name on the disk, and the same calls
\* under other logical names leave the same on-disk tree.
C25_PathHiding ==
  /\ NamesHidden(fs)
  /\ Shape(Replay(Len(hist), <<"q", "y">>)) = Shape(fs)

\* the part of C25 that does not depend on the file id: the on-disk tree is
\* the same under other logical names
C25_SameShape == Shape(Replay(Len(hist), <<"q", "y">>)) = Shape(fs)


(***************************************************************************)
(* The two chunks of one upload, sent at the same time: goroutine a runs   *)
(* put_chunk of index 0 and goroutine b put_chunk of index 1.              *)
(***************************************************************************)
AssemblyMeta(i) ==
  [logicalPath |-> <<"x">>, fileID |-> <<"f", "1">>, chunkSize |-> UploadChunkSize,
   index |-> i, totalChunks |-> 2, totalSize |-> 0]
AssemblyJob(i) == Job("put_chunk", AssemblyMeta(i), <<Lit(7)>>, <<"x">>, <<>>, 0)

AssemblyInit ==
  /\ fs \in RaceDisks
  /\ procs = [self \in Procs |-> Start(AssemblyJob(IF self = "a" THEN 0 ELSE 1), self)]
  /\ ret = NoRet
  /\ latest = [p \in CleanPaths |-> NoWrite]
  /\ up = NoUpload
  /\ sent = <<>>
  /\ hist = <<>>
  /\ cpc = "idle"
  /\ cIn = [masterKey |-> StoreKey, plain |-> <<>>, chunkSize |-> 0]
  /\ cEnc = [err |-> NoErr, index |-> 0, frames |-> <<>>]
  /\ cStream = <<>>
  /\ cTamper = NoTamper
  /\ cDec = NoDec

SpecAssembly == AssemblyInit /\ [][RacePutChunk]_vars

(***************************************************************************)
(* Claims about the two chunks sent at the same time (checked under        *)
(* SpecAssembly).                                                          *)
(***************************************************************************)
\* the goroutine self is in fn
InFn(self, fn) == \E i \in 1..Len(procs[self].k) : procs[self].k[i].fn = fn
\* the goroutine self has created a part file and not yet written it
PartOpen(self) == procs[self].fd.path # <<>> /\ IsPart(procs[self].fd.path)

\* the file the upload has to assemble to: the header and the records of
\* index 0 and 1
AssembledStream ==
  Bind(deriveHeaderFor(StoreKey, <<"f", "1">>, UploadChunkSize), LAMBDA sh :
    sh.hdr \o encryptRecord(StoreKey, sh, 0, <<Lit(7)>>) \o
    encryptRecord(StoreKey, sh, 1, <<Lit(7)>>))
\* C26: with the chunks of one file sent at the same time, no goroutine
\* assembles while a part is created and not yet written, and once a call
\* has returned assembled, every destination file is the header followed by
\* the complete records of index 0 and 1.
C26_CompleteParts ==
  /\ \A self \in Procs : \A other \in Procs \ {self} :
       InFn(self, "assemble") => ~PartOpen(other)
  /\ (\E self \in Procs : Returned(self) /\ procs[self].res.assembled) =>
       \A p \in BinFiles(fs, rootDir) : fs[p].data = AssembledStream

\* the two failures of C26 on their own: a goroutine assembles while the
\* other's part is created and not yet written; the call has returned
\* assembled and the destination file lacks the record of index 0
C26_NoOpenPartAssembled ==
  \A self \in Procs : \A other \in Procs \ {self} :
    InFn(self, "assemble") => ~PartOpen(other)
C26_NoRecordMissing ==
  ~(/\ Returned("a") /\ Returned("b") /\ procs["b"].res.assembled
    /\ procs["a"].res.err = NoErr /\ procs["a"].res.wrote
    /\ \E p \in BinFiles(fs, rootDir) :
         fs[p].data =
           Bind(deriveHeaderFor(StoreKey, <<"f", "1">>, UploadChunkSize), LAMBDA sh :
             sh.hdr \o encryptRecord(StoreKey, sh, 1, <<Lit(7)>>)))


(***************************************************************************)
(* Two new names made in one directory at the same time: goroutine a runs  *)
(* resolve_for_create of "y" and goroutine b resolve_for_create of "x",    *)
(* both in the root.                                                       *)
(***************************************************************************)
WriterName == [a |-> "y", b |-> "x"]
WriterJob(self) == Job("resolve_for_create", NoMeta, <<>>, <<WriterName[self]>>, <<>>, 0)

WritersInit ==
  /\ fs \in RaceDisks
  /\ procs = [self \in Procs |-> Start(WriterJob(self), self)]
  /\ ret = NoRet
  /\ latest = [p \in CleanPaths |-> NoWrite]
  /\ up = NoUpload
  /\ sent = <<>>
  /\ hist = <<>>
  /\ cpc = "idle"
  /\ cIn = [masterKey |-> StoreKey, plain |-> <<>>, chunkSize |-> 0]
  /\ cEnc = [err |-> NoErr, index |-> 0, frames |-> <<>>]
  /\ cStream = <<>>
  /\ cTamper = NoTamper
  /\ cDec = NoDec

SpecWriters == WritersInit /\ [][RaceResolveForCreate]_vars

(***************************************************************************)
(* Claims about the two writers of one manifest (checked under             *)
(* SpecWriters).                                                           *)
(***************************************************************************)
BothReturned == \A self \in Procs : Returned(self)
BothSucceeded ==
  \A self \in Procs : Returned(self) /\ procs[self].res.err = NoErr

\* the entries of the root's manifest that the writers made
NewEntries(f) ==
  Bind(EntriesOf(f, rootDir), LAMBDA es :
    {es[i] : i \in {k \in 1..Len(es) : es[k].name \in {WriterName[w] : w \in Procs}}})

\* the root's manifest is the list one writer saved: it can be read, the
\* entries the store had are there, in their order, and what follows is
\* entries the writers made, at most one for a name, each under a slug its
\* writer drew
OneWritersList(f, before) ==
  /\ ~Unreadable(f, rootDir)
  /\ Bind(EntriesOf(f, rootDir), LAMBDA es :
       Bind(EntriesOf(before, rootDir), LAMBDA was :
         /\ Len(es) >= Len(was)
         /\ SubSeq(es, 1, Len(was)) = was
         /\ \A i \in (Len(was) + 1)..Len(es) :
              /\ \E w \in Procs :
                   /\ es[i].name = WriterName[w]
                   /\ es[i].enc \in {SlugDraw(w, n) : n \in 1..6}
                   /\ es[i].type = "file" /\ es[i].size = 0
              /\ \A j \in (Len(was) + 1)..Len(es) : es[j].name = es[i].name => j = i))

\* C27: once two resolve_for_create calls for two new names in one
\* directory have returned, the directory's manifest is the list saved by
\* one of the writers.
C27_LastWriterWins ==
  BothReturned =>
    \E before \in RaceDisks :
      /\ \A p \in DOMAIN before : p \in DOMAIN fs
      /\ OneWritersList(fs, before)

\* both calls succeeded and the manifest holds the entry of one of them only
C27_Witness ==
  /\ BothSucceeded
  /\ ~Unreadable(fs, rootDir)
  /\ Cardinality(NewEntries(fs)) = 1


(***************************************************************************)
(* Encrypt at the end of its record counter.  The counter is a uint32; the *)
(* loop is the same for a counter of any width, and the model runs it with *)
(* a counter of CounterBits bits, so that inputs of 2^CounterBits chunks   *)
(* and more are within reach.                                              *)
(***************************************************************************)
CounterBits == 2
CounterChunkSizes == {1, 2}
\* plaintexts of up to 2^CounterBits + 1 one-byte chunks
CounterPlains ==
  {[i \in 1..Len(q) |-> Lit(q[i])] : q \in SeqsUpTo(PlainBytes, (2^CounterBits) + 1)}

CounterInit ==
  /\ cpc = "in"
  /\ cIn \in [masterKey : {StoreKey}, plain : CounterPlains, chunkSize : CounterChunkSizes]
  /\ cEnc = [err |-> NoErr, index |-> 0, frames |-> <<>>]
  /\ cStream = <<>>
  /\ cTamper = NoTamper
  /\ cDec = NoDec
  /\ procs = <<>>
  /\ StoreIdle

CounterEncrypt ==
  /\ cpc = "in"
  /\ Bind(EncryptWith(cIn.masterKey, cIn.plain, cIn.chunkSize, AnyRnd.salt,
                      AnyRnd.noncePrefix, <<>>, CounterBits), LAMBDA e :
       /\ cStream' = e.out
       /\ cEnc' = [err |-> e.err, index |-> e.index, frames |-> StreamFrames(e.out)])
  /\ cpc' = "enc"
  /\ UNCHANGED <<cIn, cTamper, cDec>>
  /\ UNCHANGED <<svars, procs>>

SpecCounter == CounterInit /\ [][CounterEncrypt]_vars

(***************************************************************************)
(* Claims about the record counter (checked under SpecCounter).            *)
(***************************************************************************)
\* the chunks a plaintext is read as
ChunksOf(plain, chunkSize) == (Len(plain) + chunkSize - 1) \div chunkSize

\* C28: the record counter never wraps: Encrypt writes at most 2^w records,
\* and it fails (ChunkLimitExceeded) exactly when the input needs a record
\* of an index above 2^w - 1, that is when it is read as more than 2^w
\* chunks; an input of exactly 2^w chunks is encrypted.
C28_CounterLimit ==
  cpc = "enc" =>
    /\ Len(cEnc.frames) <= 2^CounterBits
    /\ (cEnc.err = Err("IndexOverflow")) <=>
         (ChunksOf(cIn.plain, cIn.chunkSize) > 2^CounterBits)
    /\ cEnc.err \in {NoErr, Err("IndexOverflow")}

\* the part of C28 the code keeps: no more than 2^w records are written, and
\* an input of more than 2^w chunks fails
C28_NeverWraps ==
  cpc = "enc" =>
    /\ Len(cEnc.frames) <= 2^CounterBits
    /\ ChunksOf(cIn.plain, cIn.chunkSize) > 2^CounterBits =>
         cEnc.err = Err("IndexOverflow")


(***************************************************************************)
(* A reader next to a writer: goroutine a runs resolve_for_create of "x"   *)
(* in the root and goroutine b resolve_for_read of "x" or of "d/x", at the *)
(* same time.                                                              *)
(***************************************************************************)
ReaderJobs == {Job("resolve_for_read", NoMeta, <<>>, p, <<>>, 0) : p \in RacePaths}
CreatorJob == Job("resolve_for_create", NoMeta, <<>>, <<"x">>, <<>>, 0)

ReadersInit ==
  /\ fs \in RaceDisks
  /\ \E jb \in ReaderJobs :
       procs = [self \in Procs |-> Start(IF self = "a" THEN CreatorJob ELSE jb, self)]
  /\ ret = NoRet
  /\ latest = [p \in CleanPaths |-> NoWrite]
  /\ up = NoUpload
  /\ sent = <<>>
  /\ hist = <<>>
  /\ cpc = "idle"
  /\ cIn = [masterKey |-> StoreKey, plain |-> <<>>, chunkSize |-> 0]
  /\ cEnc = [err |-> NoErr, index |-> 0, frames |-> <<>>]
  /\ cStream = <<>>
  /\ cTamper = NoTamper
  /\ cDec = NoDec

ReadersNext == RaceResolveForCreate \/ RaceResolveForRead

SpecReaders == ReadersInit /\ [][ReadersNext]_vars

(***************************************************************************)
(* Claims about a reader next to a writer (checked under SpecReaders).     *)
(***************************************************************************)
\* the manifests of disk f are those of disk before with one file entry of
\* name more at the end of the root's
OneEntryMore(f, before, name) ==
  /\ ~Unreadable(f, rootDir)
  /\ Bind(EntriesOf(f, rootDir), LAMBDA es :
       Bind(EntriesOf(before, rootDir), LAMBDA was :
         /\ Len(es) = Len(was) + 1
         /\ SubSeq(es, 1, Len(was)) = was
         /\ es[Len(es)].name = name /\ es[Len(es)].type = "file"))
  /\ \A p \in DOMAIN Entries(before) \ {manifestPath(rootDir)} :
       p \in DOMAIN Entries(f) /\ Entries(f)[p] = Entries(before)[p]

\* C31: resolve_for_read changes the entries of no manifest, also next to a
\* resolve_for_create that adds an entry to the root: once both have
\* returned, the create with success, the manifests hold what the store
\* held before and the entry the create added.
C31_ReadKeepsEntries ==
  (BothReturned /\ procs["a"].res.err = NoErr) =>
    \E before \in RaceDisks :
      /\ \A p \in DOMAIN before : p \in DOMAIN fs
      /\ OneEntryMore(fs, before, "x")

\* the entry is lost with every manifest intact: both calls have returned
\* without error, the root's manifest can be read, and "x" is not in it
C31_NoLostEntry ==
  ~(/\ BothReturned
    /\ \A self \in Procs : procs[self].res.err \in {NoErr, Err("FileNotFound")}
    /\ procs["a"].res.err = NoErr
    /\ ~Unreadable(fs, rootDir)
    /\ FileEntries(fs, rootDir, "x") = {})


(***************************************************************************)
(* put_chunk calls into a store that already holds a file: the file was    *)
(* put by put_whole, or assembled by an earlier chunked upload.  The        *)
(* history keeps, for every call, what it was given, what it returned and  *)
(* the disk it started from.                                               *)
(***************************************************************************)
StoredPaths == {<<"x">>, <<"d", "x">>}
\* the one-chunk upload that stored the file of an earlier upload
EarlierMeta(p) ==
  [logicalPath |-> p, fileID |-> <<"f", "1">>, chunkSize |-> UploadChunkSize,
   index |-> 0, totalChunks |-> 1, totalSize |-> 1]
StoredDisks ==
  {EmptyDisk}
  \cup {UploadHandler(EmptyDisk, StoreKey, p, <<Lit(8)>>, AnyRnd, <<>>).fs : p \in StoredPaths}
  \cup {IngestChunkStateless(EmptyDisk, StoreKey, EarlierMeta(p), <<Lit(8)>>, AnyRnd).fs
          : p \in StoredPaths}
StoredMetas ==
  {m \in [logicalPath : StoredPaths, fileID : {<<"f", "1">>},
          chunkSize : {UploadChunkSize}, index : {0, 1}, totalChunks : {1, 2},
          totalSize : {3}] : m.index < m.totalChunks}

StoredInit ==
  /\ fs \in StoredDisks
  /\ ret = NoRet
  /\ latest = [p \in CleanPaths |-> NoWrite]
  /\ up = NoUpload
  /\ sent = <<>>
  /\ hist = <<>>
  /\ CodecIdle

StoredCall ==
  /\ Len(hist) < MaxCalls
  /\ \E meta \in StoredMetas :
       Bind(IngestChunkStateless(fs, StoreKey, meta, <<Lit(7)>>, AnyRnd), LAMBDA r :
           /\ fs' = r.fs
           /\ ret' = [NoRet EXCEPT !.op = "put_chunk", !.err = r.err,
                                   !.assembled = r.assembled, !.final = r.path]
           /\ hist' = Append(hist, [meta |-> meta, err |-> r.err,
                                    assembled |-> r.assembled, wrote |-> r.wrote,
                                    before |-> fs]))
  /\ UNCHANGED <<latest, up, sent>>
  /\ UNCHANGED <<cvars, procs>>

StoredNext == StoredCall

SpecStored == StoredInit /\ [][StoredNext]_vars

(***************************************************************************)
(* Claims about a chunked upload to a path that holds a file (checked      *)
(* under SpecStored).                                                      *)
(***************************************************************************)
\* the physical file of logical path on disk f: the <slug>.bin resolve_for_read
\* finds for it when that file is there, <<>> otherwise
StoredAt(f, logicalPath) ==
  Bind(ResolveForRead(f, StoreKey, logicalPath, AnyRnd), LAMBDA r :
    IF r.err = NoErr /\ IsFile(f, r.path) THEN r.path ELSE <<>>)

\* the part file of index i of the upload of call c
PartFileOf(c, i) == Join(stagingDirFor(rootDir, c.meta.fileID), PartName(i))

\* the call c completes the set of parts: every other index is staged on the
\* disk it starts from
Completes(c) ==
  \A i \in (0..(c.meta.totalChunks - 1)) \ {c.meta.index} : IsFile(c.before, PartFileOf(c, i))

\* the last call completes the parts of an upload to a path that holds a file
OntoStored ==
  /\ Len(hist) > 0
  /\ StoredAt(Last.before, Last.meta.logicalPath) # <<>>
  /\ Completes(Last)

\* C32: a put_chunk call that completes the set of parts of an upload whose
\* logical path already has a file entry with its <slug>.bin on disk fails
\* with AlreadyExists (EEXIST of the exclusive create) and returns
\* assembled = false; the file keeps its bytes, no manifest's entries
\* change, and every part of the upload is staged afterwards, the ones that
\* were staged before with the bytes they had.
C32_NoOverwrite ==
  OntoStored =>
    Bind(StoredAt(Last.before, Last.meta.logicalPath), LAMBDA bin :
      /\ Last.err = Err("EEXIST")
      /\ ~Last.assembled
      /\ IsFile(fs, bin)
      /\ fs[bin] = Last.before[bin]
      /\ SameEntries(fs, Last.before)
      /\ \A i \in 0..(Last.meta.totalChunks - 1) :
           /\ IsFile(fs, PartFileOf(Last, i))
           /\ IsFile(Last.before, PartFileOf(Last, i))
                => fs[PartFileOf(Last, i)] = Last.before[PartFileOf(Last, i)])

\* a two-chunk upload to a stored path was refused at its completing call
C32_Witness ==
  /\ OntoStored
  /\ Last.meta.totalChunks = 2
  /\ Last.wrote
  /\ Last.err = Err("EEXIST")


(***************************************************************************)
(* One two-chunk upload to the fresh path "x" until it is complete:        *)
(* goroutine a sends index 0 and goroutine b index 1 at the same time, and *)
(* a goroutine whose call has returned may send either index again, at     *)
(* most MaxRetries times in all.  Every call that was started runs to its  *)
(* return; a retry need not happen.                                        *)
(***************************************************************************)
MaxRetries == 1

\* a call has returned and its client sends an index again; the history
\* keeps what the call had returned
CompletionRetry ==
  /\ Len(hist) < MaxRetries
  /\ \E self \in Procs, i \in {0, 1} :
       /\ Returned(self)
       /\ procs' = [procs EXCEPT ![self] = Start(AssemblyJob(i), self)]
       /\ hist' = Append(hist, [index |-> procs[self].job.meta.index,
                                err |-> procs[self].res.err,
                                assembled |-> procs[self].res.assembled])
  /\ UNCHANGED <<fs, ret, latest, up, sent>>
  /\ UNCHANGED cvars

CompletionNext == RacePutChunk \/ CompletionRetry

SpecCompletion ==
  AssemblyInit /\ [][CompletionNext]_vars /\ WF_vars(RacePutChunk)

(***************************************************************************)
(* Claims about the completion of an upload (checked under                 *)
(* SpecCompletion).                                                        *)
(***************************************************************************)
\* the staging directory of the upload
CompletionStaging == stagingDirFor(rootDir, <<"f", "1">>)
\* a call of the upload has returned assembled = true
AssembledReturned ==
  \/ \E self \in Procs : Returned(self) /\ procs[self].res.assembled
  \/ \E i \in 1..Len(hist) : hist[i].assembled
\* every index of the upload was sent by a call that has returned
AllIndicesSent ==
  \A i \in {0, 1} :
    \/ \E self \in Procs : Returned(self) /\ procs[self].job.meta.index = i
    \/ \E n \in 1..Len(hist) : hist[n].index = i

\* C33: when a put_chunk call is made for every index of an upload to a
\* fresh path, in any order and interleaving and with retries, and every
\* call runs to its return, then a call returns assembled = true, after
\* which the staging directory of the file id is gone.  A run in which
\* every call that was made has returned and none is made any more has to
\* have that call in it: once the calls have all returned and every index
\* was sent, a call has returned assembled = true.
C33_UploadCompletes == (BothReturned /\ AllIndicesSent) => AssembledReturned

\* C33, the staging directory: at the return of a call with
\* assembled = true the staging directory of the file id does not exist
C33_StagingGone ==
  [][\A self \in Procs :
       (~procs[self].res.assembled /\ procs'[self].res.assembled)
         => CompletionStaging \notin DOMAIN fs']_vars

\* C33 with no manifest on disk torn at the end: the calls have all
\* returned, every index was sent, every manifest can be read, and a call
\* has returned assembled = true
C33_NoStuckUpload ==
  (BothReturned /\ AllIndicesSent /\ C11_ManifestNeverTorn) => AssembledReturned

====
